---- MODULE Spec2Model ----
(***************************************************************************)
(* A model of the PDF core of carboncopy: PDFDocument (pages, fonts,       *)
(* images, the indirect-object list, the object-number counter, embed      *)
(* contexts and save()), PDFPage and its PDFContentStream, the FontManager *)
(* used-code-point accumulator and PDFStream.                              *)
(***************************************************************************)
EXTENDS Integers, Sequences, FiniteSets, TLC

VARIABLES
    pages,              \* PDFDocument.pages: sequence of PDFPage objects
    fonts,              \* PDFDocument.fonts: Map<string, FontInfo>
    images,             \* PDFDocument.images: Map<string, ImageInfo>
    objects,            \* PDFDocument.objects: PDFIndirectObject[]
    nextObjectNumber,   \* PDFDocument.nextObjectNumber
    contexts,           \* the EmbedContext objects callers hold
    files,              \* the byte streams returned by save(), oldest first
    ret,                \* what the last call returned
    lastCall,           \* the last call made: its name and its key argument
    loaded,             \* FontManager.fonts: name -> LoadedFont.usedCodePoints
    calls,              \* how many calls have been made
    stream,             \* a PDFStream: its public data and dict fields
    serialized,         \* what PDFStream.serialize() last returned
    input,              \* the argument of a function under study
    output,             \* <<>>, or <<r>> once the function has returned r
    converter,          \* a UnitConverter: pageHeight, pageOffsetX, pageOffsetY
    twin,               \* the other Document of a pair built side by side
    scan,               \* an embedImage call under way: where its scanning loop is
    conversion          \* a convert() call under way: its locals

\* calls comes first: it changes with every call, and ret and lastCall.key
\* hold values of different kinds from one call to the next
vars == <<calls, pages, fonts, images, objects, nextObjectNumber, contexts, files,
          loaded, stream, serialized, input, output, converter, twin, scan, conversion,
          lastCall, ret>>

\* the document and its pages, fonts, images, contexts and files
docVars == <<pages, fonts, images, objects, nextObjectNumber, contexts, files,
             loaded, stream, serialized>>

\* the state outside the document and outside input and output
otherVars == <<converter, twin, scan, conversion>>

(***************************************************************************)
(* Bounds of the model.                                                    *)
(***************************************************************************)
MaxPages == 1
MaxObjectNumber == 9
MaxSaves == 2
MaxCalls == 4
MaxDrawCalls == 2
MaxContexts == 2
MaxDataLength == 2
MaxExponent == 7
MaxTextLength == 2
MaxConverterCalls == 3

FontKeys == {"F1", "F2"}
StandardFontNames == {"Helvetica"}
LoadedFontNames == {"NotoSansJP"}
CodePoints == {65, 12354}
PageSizes == {<<595, 842>>, <<0, 0>>}
Clock == {9, 10}

(***************************************************************************)
(* Maps (JavaScript Map objects) as functions with a growing domain.       *)
(***************************************************************************)
EmptyMap == [k \in {} |-> 0]

MapSet(m, key, value) ==
    [k \in DOMAIN m \cup {key} |-> IF k = key THEN value ELSE m[k]]

Last(s) == s[Len(s)]
Range(s) == {s[k] : k \in DOMAIN s}

RECURSIVE SetToSeq(_)
SetToSeq(S) ==
    IF S = {} THEN <<>>
    ELSE LET x == CHOOSE y \in S : TRUE IN <<x>> \o SetToSeq(S \ {x})

RECURSIVE Digits(_)
Digits(n) == IF n < 10 THEN 1 ELSE 1 + Digits(n \div 10)

(***************************************************************************)
(* Serialized lengths (PDFObject.ts).  An object of the model carries the   *)
(* byte length of its value without the indirect references in it, and the *)
(* references in the order they are written.                               *)
(***************************************************************************)
\* PDFRef.serialize: "n 0 R"
RefLength(r) == Digits(r) + 4

RECURSIVE RefsLength(_)
RefsLength(refs) ==
    IF refs = <<>> THEN 0 ELSE RefLength(Head(refs)) + RefsLength(Tail(refs))

\* PDFIndirectObject.serialize: "n 0 obj\n" value "\nendobj\n"
IndirectObjectLength(num, bytes, refs) ==
    (Digits(num) + 7) + (bytes + RefsLength(refs)) + 8

\* PDFStream.serialize around a dict that holds /Length and other entries
\* of otherBytes bytes: dict "\nstream\n" data "\nendstream"
StreamLength(otherBytes, dataLength) ==
    (5 + otherBytes + 9 + Digits(dataLength)) + 8 + dataLength + 10

\* pako.deflate: the zlib wrapper around the compressed payload
DeflatedLength(dataLength) == 8 + dataLength

\* PDFIndirectObject.ref()
Ref(obj) == obj.num

NewObject(num, kind, bytes, refs, cps) ==
    [num |-> num, kind |-> kind, bytes |-> bytes, refs |-> refs, cps |-> cps]

(***************************************************************************)
(* PDFPage                                                                 *)
(***************************************************************************)
NewPage(width, height) ==
    [width |-> width, height |-> height, mediaBox |-> <<0, 0, width, height>>,
     fonts |-> EmptyMap, images |-> EmptyMap, contents |-> <<>>,
     currentFont |-> "null", currentFontSize |-> 12]

\* PDFPage.addFont / PDFPage.addImage
PageAddFont(page, name, ref) == [page EXCEPT !.fonts = MapSet(page.fonts, name, ref)]
PageAddImage(page, name, ref) == [page EXCEPT !.images = MapSet(page.images, name, ref)]

\* the name of an embedded image, `Im${n}`
ImName(n) == <<"Im", n>>

\* the lengths of resource names: font keys "F1", "F2"; image names "Im<n>"
FontKeyLength(name) == Len(name)
ImageNameLength(name) == 2 + Digits(name[2])

\* the entries "\n/Name " of a resource sub-dictionary, without the references
RECURSIVE EntriesLength(_)
EntriesLength(keyLengths) ==
    IF keyLengths = <<>> THEN 0
    ELSE (2 + Head(keyLengths) + 1) + EntriesLength(Tail(keyLengths))

\* a resource sub-dictionary "<<" entries "\n>>", without its references
ResourceDictLength(keyLengths) == 2 + EntriesLength(keyLengths) + 3

FontKeyLengths(m) ==
    LET keys == SetToSeq(DOMAIN m) IN [i \in 1..Len(keys) |-> FontKeyLength(keys[i])]
ImageNameLengths(m) ==
    LET keys == SetToSeq(DOMAIN m) IN [i \in 1..Len(keys) |-> ImageNameLength(keys[i])]

MapRefs(m) == LET keys == SetToSeq(DOMAIN m) IN [i \in 1..Len(keys) |-> m[keys[i]]]

\* PDFPage.buildPageDict: Type, Parent, MediaBox, Contents, Resources
BuildPageDict(page, parentRef, contentsRef) ==
    [kind |-> "Page",
     mediaBox |-> page.mediaBox,
     fontKeys |-> DOMAIN page.fonts,
     imageKeys |-> DOMAIN page.images,
     refs |-> <<parentRef, contentsRef>> \o MapRefs(page.fonts) \o MapRefs(page.images),
     bytes |-> 67 + Digits(page.mediaBox[3]) + Digits(page.mediaBox[4])
               + 5
               + (IF DOMAIN page.fonts # {} THEN 7 + ResourceDictLength(FontKeyLengths(page.fonts)) ELSE 0)
               + (IF DOMAIN page.images # {} THEN 10 + ResourceDictLength(ImageNameLengths(page.images)) ELSE 0)]

\* PDFPage.getContentsBytes: the commands joined by "\n"
GetContentsBytes(page) == page.contents

(***************************************************************************)
(* PDFDocument                                                             *)
(***************************************************************************)
Called(op, key) == [op |-> op, key |-> key, args |-> <<>>]

\* one more call, within the number of calls the model follows; args are the
\* arguments of the call besides its key
CallWith(op, key, args) ==
    /\ calls < MaxCalls
    /\ calls' = calls + 1
    /\ lastCall' = [Called(op, key) EXCEPT !.args = args]

Call(op, key) == CallWith(op, key, <<>>)

\* addPage(width, height)
AddPage ==
    \E size \in PageSizes :
        /\ Len(pages) < MaxPages
        /\ pages' = Append(pages, NewPage(size[1], size[2]))
        /\ ret' = Len(pages) + 1
        /\ CallWith("addPage", Len(pages) + 1, <<size>>)
        /\ UNCHANGED <<fonts, images, objects, nextObjectNumber, contexts, files,
                       loaded, stream, serialized, input, output, otherVars>>

\* registerObject(value): number it with the counter, push it
RegisterObject(kind, bytes, refs) ==
    NewObject(nextObjectNumber, kind, bytes, refs, {})

\* the length of a standard font's base-font name
BaseFontLength(baseFont) == IF baseFont = "Helvetica" THEN 9 ELSE 7

\* addStandardFont without its fonts.has(name) test: registers again
AddStandardFontOverwriting(name, baseFont) ==
    LET obj == RegisterObject("Type1", 72 + BaseFontLength(baseFont), <<>>)
        fontInfo == [ref |-> Ref(obj), name |-> name, isCID |-> FALSE,
                     loadedFont |-> "none"]
    IN /\ nextObjectNumber < MaxObjectNumber
       /\ objects' = Append(objects, obj)
       /\ nextObjectNumber' = nextObjectNumber + 1
       /\ fonts' = MapSet(fonts, name, fontInfo)
       /\ ret' = fontInfo

\* addStandardFont(name, baseFont)
AddStandardFontBody(name, baseFont) ==
    IF name \in DOMAIN fonts
    THEN /\ ret' = fonts[name]
         /\ UNCHANGED <<fonts, objects, nextObjectNumber>>
    ELSE LET obj == RegisterObject("Type1", 72 + BaseFontLength(baseFont), <<>>)
             fontInfo == [ref |-> Ref(obj), name |-> name, isCID |-> FALSE,
                          loadedFont |-> "none"]
         IN /\ nextObjectNumber < MaxObjectNumber
            /\ objects' = Append(objects, obj)
            /\ nextObjectNumber' = nextObjectNumber + 1
            /\ fonts' = MapSet(fonts, name, fontInfo)
            /\ ret' = fontInfo

AddStandardFont ==
    \E name \in FontKeys, baseFont \in StandardFontNames :
        /\ AddStandardFontBody(name, baseFont)
        /\ CallWith("addStandardFont", name, <<baseFont>>)
        /\ UNCHANGED <<pages, images, contexts, files, loaded, stream, serialized, input, output, otherVars>>

(***************************************************************************)
(* FontEmbedder: embedCIDFont and the objects it creates                   *)
(***************************************************************************)
\* otFont.charToGlyph(char).index; 0 is .notdef
CharToGlyph(font, codePoint) ==
    CASE codePoint = 32 -> 1
      [] codePoint = 160 -> 1
      [] codePoint = 65 -> 34
      [] codePoint = 66 -> 35
      [] codePoint = 68 -> 37
      [] codePoint = 134047 -> 36
      [] codePoint \in 19968..20479 -> 1000 + (codePoint - 19968)
      [] OTHER -> 0

\* font.data.length
FontDataLength(font) == 1024

\* the mappings createToUnicodeCMap / buildWidthArray collect: glyph index > 0
MappedCodePoints(font, usedCodePoints) ==
    {cp \in usedCodePoints : CharToGlyph(font, cp) > 0}

\* buildToUnicodeCMap(mappings).length, for up to one chunk of mappings
CMapLength(count) ==
    305 + (IF count = 0 THEN 0 ELSE (1 + Digits(count) + 12) + 14 * count + 10)

\* embedCIDFont(font, usedCodePoints, context): the five objects it registers,
\* in order, numbered with context.nextObjectNumber++
EmbedCIDFont(font, usedCodePoints, n) ==
    LET mapped == MappedCodePoints(font, usedCodePoints)
        fontFileObj == NewObject(n, "FontFile",
            StreamLength(10 + Digits(FontDataLength(font)), FontDataLength(font)),
            <<>>, {})
        fontDescriptorObj == NewObject(n + 1, "FontDescriptor", 200,
            <<Ref(fontFileObj)>>, {})
        toUnicodeObj == NewObject(n + 2, "ToUnicode",
            StreamLength(0, CMapLength(Cardinality(mapped))), <<>>, mapped)
        cidFontObj == NewObject(n + 3, "CIDFontType2",
            160 + 8 * Cardinality(mapped), <<Ref(fontDescriptorObj)>>, mapped)
        type0FontObj == NewObject(n + 4, "Type0", 110,
            <<Ref(cidFontObj), Ref(toUnicodeObj)>>, {})
    IN [objects |-> <<fontFileObj, fontDescriptorObj, toUnicodeObj, cidFontObj,
                      type0FontObj>>,
        ref |-> Ref(type0FontObj),
        nextObjectNumber |-> n + 5]

\* addCustomFont(name, loadedFont, usedText)
AddCustomFontBody(name, loadedFont, usedText) ==
    IF name \in DOMAIN fonts
    THEN /\ ret' = fonts[name]
         /\ UNCHANGED <<fonts, objects, nextObjectNumber>>
    ELSE LET usedCodePoints == usedText \cup loaded[loadedFont] \cup {32}
             embedded == EmbedCIDFont(loadedFont, usedCodePoints, nextObjectNumber)
             fontInfo == [ref |-> embedded.ref, name |-> name, isCID |-> TRUE,
                          loadedFont |-> loadedFont]
         IN /\ embedded.nextObjectNumber <= MaxObjectNumber + 1
            /\ objects' = objects \o embedded.objects
            /\ nextObjectNumber' = embedded.nextObjectNumber
            /\ fonts' = MapSet(fonts, name, fontInfo)
            /\ ret' = fontInfo

AddCustomFont ==
    \E name \in FontKeys, loadedFont \in LoadedFontNames, usedText \in SUBSET CodePoints :
        /\ AddCustomFontBody(name, loadedFont, usedText)
        /\ CallWith("addCustomFont", name, <<loadedFont, usedText>>)
        /\ UNCHANGED <<pages, images, contexts, files, loaded, stream, serialized, input, output, otherVars>>

\* applyFontToPage(page, fontName)
ApplyFontToPage ==
    \E p \in 1..Len(pages), fontName \in FontKeys :
        /\ pages' = IF fontName \in DOMAIN fonts
                    THEN [pages EXCEPT ![p] = PageAddFont(pages[p], fontName, fonts[fontName].ref)]
                    ELSE pages
        /\ ret' = "undefined"
        /\ CallWith("applyFontToPage", fontName, <<p>>)
        /\ UNCHANGED <<fonts, images, objects, nextObjectNumber, contexts, files,
                       loaded, stream, serialized, input, output, otherVars>>

\* the image names and references a caller may pass to addImage: those of the
\* first embedded images, and a reference no object of the document carries
ImageNames == {ImName(n) : n \in 1..2}
ImageRefs == {1, 2, MaxObjectNumber + 1}

\* addImage(name, ref, width, height)
AddImageBody(name, ref) ==
    IF name \in DOMAIN images
    THEN /\ ret' = images[name]
         /\ UNCHANGED images
    ELSE LET imageInfo == [ref |-> ref, name |-> name]
         IN /\ images' = MapSet(images, name, imageInfo)
            /\ ret' = imageInfo

AddImage ==
    \E name \in ImageNames, ref \in ImageRefs :
        /\ AddImageBody(name, ref)
        /\ CallWith("addImage", name, <<ref>>)
        /\ UNCHANGED <<pages, fonts, objects, nextObjectNumber, contexts, files,
                       loaded, stream, serialized, input, output, otherVars>>

\* applyImageToPage(page, imageName)
ApplyImageToPage ==
    \E p \in 1..Len(pages), imageName \in ImageNames :
        /\ pages' = IF imageName \in DOMAIN images
                    THEN [pages EXCEPT ![p] = PageAddImage(pages[p], imageName, images[imageName].ref)]
                    ELSE pages
        /\ ret' = "undefined"
        /\ CallWith("applyImageToPage", imageName, <<p>>)
        /\ UNCHANGED <<fonts, images, objects, nextObjectNumber, contexts, files,
                       loaded, stream, serialized, input, output, otherVars>>

(***************************************************************************)
(* Embed contexts and ImageRenderer.embedImage                             *)
(***************************************************************************)
\* getEmbedContext(): a context that starts at the counter's current value
GetEmbedContext ==
    \E c \in 1..MaxContexts :
        /\ contexts' = [contexts EXCEPT ![c] =
                           [live |-> TRUE, nextObjectNumber |-> nextObjectNumber]]
        /\ ret' = c
        /\ Call("getEmbedContext", c)
        /\ UNCHANGED <<pages, fonts, images, objects, nextObjectNumber, files,
                       loaded, stream, serialized, input, output, otherVars>>

\* the registerObject closure of getEmbedContext(), applied to objs in order:
\* the counter after the pushes
RECURSIVE ContextRegisterCounter(_, _)
ContextRegisterCounter(counter, objs) ==
    IF objs = <<>> THEN counter
    ELSE ContextRegisterCounter(
             IF Head(objs).num >= counter THEN Head(objs).num + 1 ELSE counter,
             Tail(objs))

\* data[i] of a Uint8Array, 0-based; undefined (-1) past the end
ByteAt(data, i) == IF i < Len(data) THEN data[i + 1] ELSE -1

\* detectImageType with a JPEG test of the first two bytes only
DetectImageTypeTwoBytes(data) ==
    IF ByteAt(data, 0) = 255 /\ ByteAt(data, 1) = 216 THEN "jpeg" ELSE "unknown"

\* detectImageType(data)
DetectImageType(data) ==
    IF ByteAt(data, 0) = 255 /\ ByteAt(data, 1) = 216 /\ ByteAt(data, 2) = 255
    THEN "jpeg"
    ELSE IF /\ ByteAt(data, 0) = 137 /\ ByteAt(data, 1) = 80
            /\ ByteAt(data, 2) = 78 /\ ByteAt(data, 3) = 71
            /\ ByteAt(data, 4) = 13 /\ ByteAt(data, 5) = 10
            /\ ByteAt(data, 6) = 26 /\ ByteAt(data, 7) = 10
    THEN "png"
    ELSE "unknown"

\* the image data followed: what the data begins with, and whether a PNG
\* has an alpha channel
JPEGMarker == <<255, 216, 255>>
PNGSignature == <<137, 80, 78, 71, 13, 10, 26, 10>>
ImageInputs ==
    {[data |-> JPEGMarker \o <<224>>, alpha |-> FALSE],
     [data |-> PNGSignature, alpha |-> FALSE],
     [data |-> PNGSignature, alpha |-> TRUE],
     [data |-> <<>>, alpha |-> FALSE],
     [data |-> <<71, 73, 70, 56, 57, 97>>, alpha |-> FALSE],
     [data |-> <<255, 216, 0>>, alpha |-> FALSE],
     [data |-> SubSeq(PNGSignature, 1, 7), alpha |-> FALSE]}

\* embedJPEG / embedPNG / createSoftMask: the objects registered through the
\* context, numbered with context.nextObjectNumber++
EmbedImageObjects(imageData, n) ==
    IF DetectImageType(imageData.data) = "png" /\ imageData.alpha
    THEN <<NewObject(n, "SMask", StreamLength(110, 16), <<>>, {}),
           NewObject(n + 1, "Image", StreamLength(118, 16), <<n>>, {})>>
    ELSE <<NewObject(n, "Image", StreamLength(110, 16), <<>>, {})>>

\* embedImage(imageData, context)
EmbedImage ==
    \E c \in 1..MaxContexts, imageData \in ImageInputs :
        LET n == contexts[c].nextObjectNumber
            objs == EmbedImageObjects(imageData, n)
        IN /\ contexts[c].live
           /\ CallWith("embedImage", <<c, imageData.data>>, <<imageData.alpha>>)
           /\ IF DetectImageType(imageData.data) = "unknown"
              THEN /\ ret' = "Error: Unsupported image format"
                   /\ UNCHANGED <<objects, nextObjectNumber, contexts>>
              ELSE /\ n + Len(objs) <= MaxObjectNumber + 1
                   /\ Len(objects) + Len(objs) <= MaxObjectNumber
                   /\ objects' = objects \o objs
                   /\ nextObjectNumber' = ContextRegisterCounter(nextObjectNumber, objs)
                   /\ contexts' = [contexts EXCEPT ![c].nextObjectNumber = n + Len(objs)]
                   /\ ret' = [ref |-> Ref(Last(objs)), name |-> ImName(n + Len(objs) - 1)]
           /\ UNCHANGED <<pages, fonts, images, files, loaded, stream, serialized, input, output, otherVars>>

\* syncEmbedContext(context)
SyncEmbedContext ==
    \E c \in 1..MaxContexts :
        /\ contexts[c].live
        /\ nextObjectNumber' = contexts[c].nextObjectNumber
        /\ ret' = "undefined"
        /\ Call("syncEmbedContext", c)
        /\ UNCHANGED <<pages, fonts, images, objects, contexts, files,
                       loaded, stream, serialized, input, output, otherVars>>

(***************************************************************************)
(* PDFDocument.save()                                                      *)
(***************************************************************************)
\* one indirect object as written into the file
Written(num, kind, bytes, refs, value) ==
    [num |-> num, kind |-> kind, refs |-> refs, value |-> value,
     length |-> IndirectObjectLength(num, bytes, refs)]

\* objectOffsets[obj.objectNumber] = currentOffset; parts.push(serialized);
\* currentOffset += serialized.length -- over the parts in file order
RECURSIVE RecordOffsets(_, _, _)
RecordOffsets(parts, currentOffset, objectOffsets) ==
    IF parts = <<>> THEN objectOffsets
    ELSE RecordOffsets(Tail(parts), currentOffset + Head(parts).length,
                       MapSet(objectOffsets, Head(parts).num, currentOffset))

RECURSIVE TotalLength(_)
TotalLength(parts) ==
    IF parts = <<>> THEN 0 ELSE Head(parts).length + TotalLength(Tail(parts))

\* the length of the header, '%PDF-1.7\n%\xE2\xE3\xCF\xD3\n' in UTF-8
HeaderLength == 19

\* pad(n) of formatPDFDate without the padding
padLengthUnpadded(n) == Digits(n)

\* pad(n) of formatPDFDate: the length of n.toString().padStart(2, '0')
padLength(n) == IF Digits(n) < 2 THEN 2 ELSE Digits(n)

\* formatPDFDate(date), its length: D:YYYYMMDDHHmmSS+HH'mm', the clock of the
\* model being the seconds of the date
formatPDFDateLength(now) == 2 + 4 + (4 * 2) + padLength(now) + 1 + 2 + 1 + 2 + 1

\* the Info dictionary: Creator, Producer, CreationDate, ModDate
InfoDictLength(dateLength) == 2 + 28 + 29 + (17 + dateLength) + (12 + dateLength) + 3

\* the file save() returns when the counter stands at n0 and the clock at now,
\* and the counter afterwards
SaveFile(n0, now) ==
    LET count == Len(pages)
        pagesObjectNumber == n0
        contentObjectNumbers == [i \in 1..count |-> n0 + 2 * i - 1]
        pageObjectNumbers == [i \in 1..count |-> n0 + 2 * i]
        infoObjectNumber == n0 + 2 * count + 1
        catalogObjectNumber == n0 + 2 * count + 2
        registered == [i \in 1..Len(objects) |->
            Written(objects[i].num, objects[i].kind, objects[i].bytes,
                    objects[i].refs, objects[i].cps)]
        pagesObj == Written(pagesObjectNumber, "Pages",
            35 + (IF count > 0 THEN count - 1 ELSE 0) + Digits(count),
            pageObjectNumbers, count)
        contentObj(i) ==
            LET contentData == GetContentsBytes(pages[i])
                compressedLength == DeflatedLength(Len(contentData))
            IN Written(contentObjectNumbers[i], "Contents",
                       StreamLength(21, compressedLength), <<>>, contentData)
        pageObj(i) ==
            LET pageDict == BuildPageDict(pages[i], pagesObjectNumber,
                                          contentObjectNumbers[i])
            IN Written(pageObjectNumbers[i], "Page", pageDict.bytes, pageDict.refs,
                       <<pageDict.mediaBox, pageDict.fontKeys, pageDict.imageKeys>>)
        pageParts == [k \in 1..(2 * count) |->
            IF k % 2 = 1 THEN contentObj((k + 1) \div 2) ELSE pageObj(k \div 2)]
        infoObj == Written(infoObjectNumber, "Info", InfoDictLength(formatPDFDateLength(now)),
                           <<>>, now)
        catalogObj == Written(catalogObjectNumber, "Catalog", 28,
                              <<pagesObjectNumber>>, 0)
        parts == registered \o <<pagesObj>> \o pageParts \o <<infoObj, catalogObj>>
        objectOffsets == RecordOffsets(parts, HeaderLength, EmptyMap)
        size == catalogObjectNumber + 1
    IN [header |-> HeaderLength,
        parts |-> parts,
        xrefOffset |-> HeaderLength + TotalLength(parts),
        xref |-> [i \in 1..(size - 1) |->
                     IF i \in DOMAIN objectOffsets THEN objectOffsets[i] ELSE 0],
        size |-> size,
        root |-> catalogObjectNumber,
        info |-> infoObjectNumber]

\* save()
Save ==
    \E now \in Clock :
        LET file == SaveFile(nextObjectNumber, now)
        IN /\ Len(files) < MaxSaves
           /\ file.size <= MaxObjectNumber + 1
           /\ files' = Append(files, file)
           /\ nextObjectNumber' = file.size
           /\ ret' = Len(files) + 1
           /\ Call("save", now)
           /\ UNCHANGED <<pages, fonts, images, objects, contexts,
                          loaded, stream, serialized, input, output, otherVars>>

(***************************************************************************)
(* PDFContentStream and the PDFPage draw calls                             *)
(***************************************************************************)
FontSizes == {12, 24}
TextStyles == {[color |-> FALSE, letterSpacing |-> 0],
               [color |-> TRUE, letterSpacing |-> 1]}
PathStyles == {[fill |-> FALSE, stroke |-> FALSE, lineWidth |-> FALSE],
               [fill |-> TRUE, stroke |-> FALSE, lineWidth |-> FALSE],
               [fill |-> FALSE, stroke |-> TRUE, lineWidth |-> TRUE],
               [fill |-> TRUE, stroke |-> TRUE, lineWidth |-> TRUE]}

\* one command of PDFContentStream.commands: its operator and what the model
\* keeps of its operands
Command(op, operands) == [op |-> op, operands |-> operands]

\* PDFContentStream.saveState / restoreState
saveState == <<Command("q", <<>>)>>
restoreState == <<Command("Q", <<>>)>>

\* PDFContentStream.setFont: "/name size Tf"
setFont(fontName, size) == <<Command("Tf", <<fontName, size>>)>>

\* PDFContentStream.drawImage: "/name Do"
drawImageOperator(imageName) == <<Command("Do", <<imageName>>)>>

Optional(condition, commands) == IF condition THEN commands ELSE <<>>

\* the font-setting part shared by drawText, drawTextUnicode and drawTextCID
SetFontIfChanged(page, font, fontSize) ==
    Optional(page.currentFont # font \/ page.currentFontSize # fontSize,
             setFont(font, fontSize))

Emit(page, commands) == [page EXCEPT !.contents = @ \o commands]

WithFont(page, font, fontSize) ==
    [page EXCEPT !.currentFont = font, !.currentFontSize = fontSize]

\* PDFPage.drawText(text, x, y, options), without targetWidth
drawText(page, font, fontSize, style) ==
    LET charSpacing == style.letterSpacing
    IN WithFont(Emit(page,
           <<Command("BT", <<>>)>>
           \o Optional(style.color, <<Command("rg", <<>>)>>)
           \o SetFontIfChanged(page, font, fontSize)
           \o Optional(charSpacing # 0, <<Command("Tc", <<charSpacing>>)>>)
           \o <<Command("Td", <<>>), Command("Tj", <<"literal">>)>>
           \o Optional(charSpacing # 0, <<Command("Tc", <<0>>)>>)
           \o <<Command("ET", <<>>)>>), font, fontSize)

\* PDFPage.drawTextUnicode(text, x, y, options)
drawTextUnicode(page, font, fontSize, style) ==
    WithFont(Emit(page,
        <<Command("BT", <<>>)>>
        \o Optional(style.color, <<Command("rg", <<>>)>>)
        \o SetFontIfChanged(page, font, fontSize)
        \o <<Command("Td", <<>>), Command("Tj", <<"utf16">>)>>
        \o <<Command("ET", <<>>)>>), font, fontSize)

\* PDFPage.drawTextCID(hexText, x, y, options)
drawTextCID(page, font, fontSize, style) ==
    LET charSpacing == style.letterSpacing
    IN WithFont(Emit(page,
           <<Command("BT", <<>>)>>
           \o Optional(style.color, <<Command("rg", <<>>)>>)
           \o SetFontIfChanged(page, font, fontSize)
           \o Optional(charSpacing # 0, <<Command("Tc", <<charSpacing>>)>>)
           \o <<Command("Td", <<>>), Command("Tj", <<"hex">>)>>
           \o Optional(charSpacing # 0, <<Command("Tc", <<0>>)>>)
           \o <<Command("ET", <<>>)>>), font, fontSize)

\* PDFPage.drawLine(x1, y1, x2, y2, options)
drawLine(page, style) ==
    Emit(page,
        saveState
        \o Optional(style.lineWidth, <<Command("w", <<>>)>>)
        \o Optional(style.stroke, <<Command("RG", <<>>)>>)
        \o <<Command("m", <<>>), Command("l", <<>>), Command("S", <<>>)>>
        \o restoreState)

\* drawRect without its closing restoreState
drawRectUnclosed(page, style) ==
    Emit(page,
        saveState
        \o Optional(style.lineWidth, <<Command("w", <<>>)>>)
        \o <<Command("re", <<>>)>>
        \o Optional(style.fill, <<Command("rg", <<>>), Command("f", <<>>)>>))

\* PDFPage.drawRect(x, y, width, height, options)
drawRect(page, style) ==
    Emit(page,
        saveState
        \o Optional(style.lineWidth, <<Command("w", <<>>)>>)
        \o <<Command("re", <<>>)>>
        \o (IF style.fill /\ style.stroke
            THEN <<Command("rg", <<>>), Command("RG", <<>>), Command("B", <<>>)>>
            ELSE IF style.fill
            THEN <<Command("rg", <<>>), Command("f", <<>>)>>
            ELSE IF style.stroke
            THEN <<Command("RG", <<>>), Command("S", <<>>)>>
            ELSE <<>>)
        \o restoreState)

\* PDFPage.drawImage(imageName, x, y, width, height)
drawImage(page, imageName) ==
    Emit(page,
        saveState
        \o <<Command("cm", <<>>)>>
        \o drawImageOperator(imageName)
        \o restoreState)

\* PDFPage.setClipRect(x, y, width, height)
setClipRect(page) ==
    Emit(page, <<Command("re", <<>>), Command("W", <<>>), Command("n", <<>>)>>)

\* one more call on a page, within the number of draw calls the model follows
PageCallWith(op, key, args) ==
    /\ calls < MaxDrawCalls
    /\ calls' = calls + 1
    /\ lastCall' = [Called(op, key) EXCEPT !.args = args]
    /\ ret' = "undefined"
    /\ UNCHANGED <<fonts, images, objects, nextObjectNumber, contexts, files,
                   loaded, stream, serialized, input, output, otherVars>>

PageCall(op, key) == PageCallWith(op, key, <<>>)

DrawText ==
    \E p \in 1..Len(pages), font \in FontKeys, fontSize \in FontSizes, style \in TextStyles :
        /\ pages' = [pages EXCEPT ![p] = drawText(pages[p], font, fontSize, style)]
        /\ PageCallWith("drawText", font, <<p, fontSize, style>>)

DrawTextUnicode ==
    \E p \in 1..Len(pages), font \in FontKeys, fontSize \in FontSizes, style \in TextStyles :
        /\ pages' = [pages EXCEPT ![p] = drawTextUnicode(pages[p], font, fontSize, style)]
        /\ PageCallWith("drawTextUnicode", font, <<p, fontSize, style>>)

DrawTextCID ==
    \E p \in 1..Len(pages), font \in FontKeys, fontSize \in FontSizes, style \in TextStyles :
        /\ pages' = [pages EXCEPT ![p] = drawTextCID(pages[p], font, fontSize, style)]
        /\ PageCallWith("drawTextCID", font, <<p, fontSize, style>>)

DrawLine ==
    \E p \in 1..Len(pages), style \in {s \in PathStyles : ~s.fill} :
        /\ pages' = [pages EXCEPT ![p] = drawLine(pages[p], style)]
        /\ PageCallWith("drawLine", p, <<style>>)

DrawRect ==
    \E p \in 1..Len(pages), style \in PathStyles :
        /\ pages' = [pages EXCEPT ![p] = drawRect(pages[p], style)]
        /\ PageCallWith("drawRect", p, <<style>>)

DrawImage ==
    \E p \in 1..Len(pages), imageName \in ImageNames :
        /\ pages' = [pages EXCEPT ![p] = drawImage(pages[p], imageName)]
        /\ PageCallWith("drawImage", imageName, <<p>>)

SetClipRect ==
    \E p \in 1..Len(pages) :
        /\ pages' = [pages EXCEPT ![p] = setClipRect(pages[p])]
        /\ PageCall("setClipRect", p)

\* PDFPage.saveState()
SaveState ==
    \E p \in 1..Len(pages) :
        /\ pages' = [pages EXCEPT ![p] = Emit(pages[p], saveState)]
        /\ PageCall("saveState", p)

\* PDFPage.restoreState()
RestoreState ==
    \E p \in 1..Len(pages) :
        /\ pages' = [pages EXCEPT ![p] = Emit(pages[p], restoreState)]
        /\ PageCall("restoreState", p)

\* PDFPage.addFont(name, ref), as applyFontToPage calls it
AddFont ==
    \E p \in 1..Len(pages), name \in FontKeys :
        /\ pages' = [pages EXCEPT ![p] = PageAddFont(pages[p], name, 1)]
        /\ PageCallWith("addFont", name, <<p>>)

\* PDFPage.addImage(name, ref), as applyImageToPage calls it
PageImage ==
    \E p \in 1..Len(pages), name \in ImageNames :
        /\ pages' = [pages EXCEPT ![p] = PageAddImage(pages[p], name, 1)]
        /\ PageCallWith("addImage", name, <<p>>)

(***************************************************************************)
(* FontManager: the used-code-point accumulator of a LoadedFont            *)
(***************************************************************************)
\* markGlyphsAsUsed(fontName, text); a direct loadedFont.usedCodePoints.add(cp)
\* has the same effect
MarkGlyphsAsUsed ==
    \E fontName \in LoadedFontNames \cup {"missing"}, text \in SUBSET CodePoints :
        /\ loaded' = IF fontName \in DOMAIN loaded
                     THEN [loaded EXCEPT ![fontName] = @ \cup text]
                     ELSE loaded
        /\ ret' = "undefined"
        /\ CallWith("markGlyphsAsUsed", fontName, <<text>>)
        /\ UNCHANGED <<pages, fonts, images, objects, nextObjectNumber, contexts,
                       files, stream, serialized, input, output, otherVars>>

(***************************************************************************)
(* PDFStream                                                               *)
(***************************************************************************)
Bytes == {0, 255}
Payloads == UNION {[1..n -> Bytes] : n \in 0..MaxDataLength}
\* the /Length values a caller may put into a dictionary
CallerLengths == {0, 99}
\* the dictionaries a caller may pass to the constructor
CallerDicts == {EmptyMap} \cup {MapSet(EmptyMap, "Length", n) : n \in CallerLengths}

\* new PDFStream(data, dict): the constructor sets /Length to data.length
NewStream ==
    \E data \in Payloads, dict \in CallerDicts :
        /\ stream' = [data |-> data, dict |-> MapSet(dict, "Length", Len(data))]
        /\ UNCHANGED <<pages, fonts, images, objects, nextObjectNumber, contexts,
                       files, ret, lastCall, calls, loaded, serialized, input, output, otherVars>>

\* stream.data = data: the field is public and not readonly
SetStreamData ==
    \E data \in Payloads :
        /\ "Length" \in DOMAIN stream.dict
        /\ stream' = [stream EXCEPT !.data = data]
        /\ UNCHANGED <<pages, fonts, images, objects, nextObjectNumber, contexts,
                       files, ret, lastCall, calls, loaded, serialized, input, output, otherVars>>

\* stream.dict.set('Length', value): the dict is public
SetStreamLength ==
    \E value \in CallerLengths :
        /\ "Length" \in DOMAIN stream.dict
        /\ stream' = [stream EXCEPT !.dict = MapSet(@, "Length", value)]
        /\ UNCHANGED <<pages, fonts, images, objects, nextObjectNumber, contexts,
                       files, ret, lastCall, calls, loaded, serialized, input, output, otherVars>>

\* PDFStream.serialize(): dict, "\nstream\n", data, "\nendstream"
SerializeStream ==
    /\ "Length" \in DOMAIN stream.dict
    /\ serialized' = <<[dict |-> stream.dict, payload |-> stream.data]>>
    /\ UNCHANGED <<pages, fonts, images, objects, nextObjectNumber, contexts,
                   files, ret, lastCall, calls, loaded, stream, input, output, otherVars>>

(***************************************************************************)
(* Numbers: PDFNumber.serialize and the content stream's formatNumber       *)
(*                                                                         *)
(* A number is held as ECMAScript's Number::toString sees it: not finite,  *)
(* or sign, s, n with k = Digits(s) and value s * 10^(n - k), where s has  *)
(* no trailing zero.  A text is a sequence of one-character strings.       *)
(***************************************************************************)
Number(kind, neg, s, n) == [kind |-> kind, neg |-> neg, s |-> s, n |-> n]

DigitChars == <<"0", "1", "2", "3", "4", "5", "6", "7", "8", "9">>

RECURSIVE Pow10(_)
Pow10(e) == IF e = 0 THEN 1 ELSE 10 * Pow10(e - 1)

\* the decimal digits of a natural number
RECURSIVE IntText(_)
IntText(m) ==
    IF m < 10 THEN <<DigitChars[m + 1]>>
    ELSE IntText(m \div 10) \o <<DigitChars[(m % 10) + 1]>>

Zeros(count) == [i \in 1..count |-> "0"]

\* Number.isInteger(x)
IsInteger(x) == x.kind = "finite" /\ (x.s = 0 \/ x.n >= Digits(x.s))

\* Number::toString(x), radix 10
NumberToString(x) ==
    LET digits == IntText(x.s)
        k == Len(digits)
        n == x.n
        sign == IF x.neg THEN <<"-">> ELSE <<>>
    IN CASE x.kind = "NaN" -> <<"N", "a", "N">>
         [] x.kind = "Infinity" -> sign \o <<"I", "n", "f", "i", "n", "i", "t", "y">>
         [] x.s = 0 -> <<"0">>
         [] k <= n /\ n <= 21 -> sign \o digits \o Zeros(n - k)
         [] 0 < n /\ n < k -> sign \o SubSeq(digits, 1, n) \o <<".">> \o SubSeq(digits, n + 1, k)
         [] -6 < n /\ n <= 0 -> sign \o <<"0", ".">> \o Zeros(-n) \o digits
         [] OTHER ->
             sign \o <<Head(digits)>>
             \o (IF k = 1 THEN <<>> ELSE <<".">> \o Tail(digits))
             \o <<"e", IF n - 1 < 0 THEN "-" ELSE "+">>
             \o IntText(IF n - 1 < 0 THEN 1 - n ELSE n - 1)

\* Number.prototype.toFixed(fractionDigits) for a number that is not an
\* integer: the nearest multiple of 10^-fractionDigits, all digits written
ToFixed(x, fractionDigits) ==
    IF x.kind # "finite" THEN NumberToString(x)
    ELSE LET shift == x.n - Digits(x.s) + fractionDigits
             scaled == IF shift >= 0 THEN x.s * Pow10(shift)
                       ELSE IF -shift > Digits(x.s) THEN 0
                       ELSE (x.s + Pow10(-shift) \div 2) \div Pow10(-shift)
             m == IntText(scaled)
             padded == IF Len(m) <= fractionDigits
                       THEN Zeros(fractionDigits + 1 - Len(m)) \o m ELSE m
         IN (IF x.neg THEN <<"-">> ELSE <<>>)
            \o SubSeq(padded, 1, Len(padded) - fractionDigits)
            \o <<".">>
            \o SubSeq(padded, Len(padded) - fractionDigits + 1, Len(padded))

\* text.replace(/\.?0+$/, ''): the trailing zeros and a dot before them
StripTrailingZeros(text) ==
    LET zeros == {i \in 1..Len(text) : \A j \in i..Len(text) : text[j] = "0"}
    IN IF zeros = {} THEN text
       ELSE LET first == CHOOSE i \in zeros : \A j \in zeros : i <= j
                start == IF first > 1 /\ text[first - 1] = "." THEN first - 1 ELSE first
            IN SubSeq(text, 1, start - 1)

\* PDFNumber.serialize() and formatNumber(n): the same two branches
FormatNumber(x) ==
    IF IsInteger(x) THEN NumberToString(x)
    ELSE StripTrailingZeros(ToFixed(x, 5))

\* the numbers followed: zero, integers up to the exponent at which
\* toString turns to exponent notation, fractions with up to seven
\* significant digits, and the three values that are not finite.  A fraction
\* whose sixth decimal is a lone 5 is left out: which way toFixed rounds it
\* depends on the binary value, which this representation does not hold.
Mantissas == {1, 5, 15, 105, 1234567, 9999996}
Exponents == (-MaxExponent)..4 \cup {20, 21, 22}
FiniteNumbers ==
    {Number("finite", neg, s, n) : neg \in BOOLEAN, s \in Mantissas, n \in Exponents}
    \cup {Number("finite", FALSE, 0, 1)}
IsTie(x) ==
    LET cut == Digits(x.s) - x.n - 5
    IN cut >= 1 /\ cut <= Digits(x.s) /\ x.s % Pow10(cut) = 5 * Pow10(cut - 1)
Numbers ==
    {x \in FiniteNumbers : IsInteger(x) \/ (x.n <= 4 /\ ~IsTie(x))}
    \cup {Number("NaN", FALSE, 0, 0), Number("Infinity", FALSE, 0, 0),
          Number("Infinity", TRUE, 0, 0)}

Returned(by, threw, value) == [by |-> by, threw |-> threw, value |-> value]
HasReturned(by) == \E k \in DOMAIN output : output[k].by = by

PureUnchanged ==
    UNCHANGED <<pages, fonts, images, objects, nextObjectNumber, contexts, files,
                ret, lastCall, calls, loaded, stream, serialized, input, otherVars>>

\* new PDFNumber(input).serialize()
SerializeNumber ==
    /\ ~HasReturned("PDFNumber.serialize")
    /\ output' = Append(output, Returned("PDFNumber.serialize", FALSE, FormatNumber(input)))
    /\ PureUnchanged

\* formatNumber(input), as every content-stream operator formats an operand
FormatOperand ==
    /\ ~HasReturned("formatNumber")
    /\ output' = Append(output, Returned("formatNumber", FALSE, FormatNumber(input)))
    /\ PureUnchanged

(***************************************************************************)
(* FontEmbedder: ToUnicode CMap, W array and textToCIDHex                  *)
(***************************************************************************)
HexChars == <<"0", "1", "2", "3", "4", "5", "6", "7", "8", "9",
              "A", "B", "C", "D", "E", "F">>

\* n.toString(16).toUpperCase()
RECURSIVE HexText(_)
HexText(m) ==
    IF m < 16 THEN <<HexChars[m + 1]>>
    ELSE HexText(m \div 16) \o <<HexChars[(m % 16) + 1]>>

\* n.toString(16).padStart(4, '0').toUpperCase()
Hex4(m) == LET hex == HexText(m) IN Zeros(IF Len(hex) < 4 THEN 4 - Len(hex) ELSE 0) \o hex

\* the k-th smallest element of a set of integers
Nth(S, k) == CHOOSE i \in S : Cardinality({j \in S : j <= i}) = k

\* the elements of a sequence in order of first occurrence, as a Set keeps them
InsertionOrder(items) ==
    LET indexed == [i \in DOMAIN items |-> [i |-> i, item |-> items[i]]]
        IsFirst(e) == \A j \in 1..(e.i - 1) : items[j] # e.item
        firsts == SelectSeq(indexed, IsFirst)
    IN [k \in DOMAIN firsts |-> firsts[k].item]

\* addCustomFont: the code points of usedText, then the space
UsedCodePoints(usedText) == InsertionOrder(usedText \o <<32>>)

\* Array.prototype.sort((a, b) => a.gid - b.gid): stable
SortByGid(entries) ==
    LET count == Len(entries)
        gids == SubSeq([i \in 1..count |-> entries[i].gid], 1, count)
        rank == SubSeq([i \in 1..count |->
                    Cardinality({j \in 1..count :
                        gids[j] < gids[i] \/ (gids[j] = gids[i] /\ j <= i)})], 1, count)
        at == SubSeq([k \in 1..count |-> CHOOSE i \in 1..count : rank[i] = k], 1, count)
    IN [k \in 1..count |-> entries[at[k]]]

\* the entries createToUnicodeCMap and buildWidthArray collect, in the order
\* of usedCodePoints: those with glyph.index > 0
HasGlyph(entry) == entry.gid > 0
CollectGlyphs(font, usedCodePoints) ==
    SelectSeq([i \in DOMAIN usedCodePoints |->
                  [gid |-> CharToGlyph(font, usedCodePoints[i]),
                   unicode |-> usedCodePoints[i]]],
              HasGlyph)

chunkSize == 100

\* buildToUnicodeCMap without the chunking: one block for all mappings
BuildToUnicodeCMapUnchunked(mappings) ==
    LET sorted == SortByGid(mappings)
    IN IF sorted = <<>> THEN <<>>
       ELSE <<[count |-> Len(sorted),
               lines |-> [i \in 1..Len(sorted) |->
                             [gidHex |-> Hex4(sorted[i].gid),
                              unicodeHex |-> Hex4(sorted[i].unicode)]]]>>

\* buildToUnicodeCMap: the bfchar blocks, each with the count written before
\* beginbfchar and its "<gid> <unicode>" lines
BuildToUnicodeCMap(mappings) ==
    LET sorted == SortByGid(mappings)
        starts == {i \in 1..Len(sorted) : (i - 1) % chunkSize = 0}
        chunk(b) == SubSeq(sorted, (b - 1) * chunkSize + 1,
                           IF b * chunkSize < Len(sorted) THEN b * chunkSize ELSE Len(sorted))
    IN [b \in 1..Cardinality(starts) |->
           [count |-> Len(chunk(b)),
            lines |-> [i \in 1..Len(chunk(b)) |->
                          [gidHex |-> Hex4(chunk(b)[i].gid),
                           unicodeHex |-> Hex4(chunk(b)[i].unicode)]]]]

\* createToUnicodeCMap(font, usedCodePoints, objectNumber)
CreateToUnicodeCMap(font, usedCodePoints) ==
    BuildToUnicodeCMap(CollectGlyphs(font, usedCodePoints))

\* glyph.advanceWidth, and otFont.unitsPerEm
AdvanceWidth(font, gid) == 1000 + 10 * (gid % 50)
UnitsPerEm(font) == 2048

\* Math.round(advanceWidth * scale) with scale = 1000 / unitsPerEm
ScaledWidth(font, gid) ==
    (2 * 1000 * AdvanceWidth(font, gid) + UnitsPerEm(font)) \div (2 * UnitsPerEm(font))

\* the grouping loop of buildWidthArray over the sorted widths: a group
\* starts at the first entry and wherever gid is not the previous gid + 1
GroupWidths(widths) ==
    LET starts == {i \in DOMAIN widths : i = 1 \/ widths[i].gid # widths[i - 1].gid + 1}
        end(g) == IF g < Cardinality(starts) THEN Nth(starts, g + 1) - 1 ELSE Len(widths)
    IN [g \in 1..Cardinality(starts) |->
           [startGid |-> widths[Nth(starts, g)].gid,
            widths |-> [i \in 1..(end(g) - Nth(starts, g) + 1) |->
                           widths[Nth(starts, g) + i - 1].width]]]

\* buildWidthArray(font, usedCodePoints, scale)
BuildWidthArray(font, usedCodePoints) ==
    LET collected == CollectGlyphs(font, usedCodePoints)
        widths == [i \in DOMAIN collected |->
                      [gid |-> collected[i].gid, width |-> ScaledWidth(font, collected[i].gid)]]
    IN GroupWidths(SortByGid(widths))

\* textToCIDHex(font, text): one 4-digit code per character
TextToCIDHex(font, text) == [i \in DOMAIN text |-> Hex4(CharToGlyph(font, text[i]))]

\* the texts followed: short texts over a few code points, among them one
\* the font has no glyph for, two that share a glyph and one outside the
\* basic plane, and runs of ideographs around the chunk size
SampleCodePoints == {65, 66, 68, 160, 12354, 134047}
RunLengths == {chunkSize - 1, chunkSize, 2 * chunkSize}
SampleTexts ==
    UNION {[1..n -> SampleCodePoints] : n \in 0..MaxTextLength}
    \cup {[i \in 1..n |-> 19968 + (n - i)] : n \in RunLengths}

\* addCustomFont(name, font, input) as far as the ToUnicode stream
EmbedToUnicode ==
    /\ ~HasReturned("createToUnicodeCMap")
    /\ output' = Append(output, Returned("createToUnicodeCMap", FALSE,
                     CreateToUnicodeCMap("NotoSansJP", UsedCodePoints(input))))
    /\ PureUnchanged

\* addCustomFont(name, font, input) as far as the W array
EmbedWidths ==
    /\ ~HasReturned("buildWidthArray")
    /\ output' = Append(output, Returned("buildWidthArray", FALSE,
                     BuildWidthArray("NotoSansJP", UsedCodePoints(input))))
    /\ PureUnchanged

\* textToCIDHex(font, input)
TextToHex ==
    /\ ~HasReturned("textToCIDHex")
    /\ output' = Append(output, Returned("textToCIDHex", FALSE,
                     TextToCIDHex("NotoSansJP", input)))
    /\ PureUnchanged

(***************************************************************************)
(* Literal strings (PDFObject.ts, PDFContentStream.ts).  A string is the    *)
(* sequence of its code points, a serialized string the sequence of the     *)
(* character codes written.                                                 *)
(***************************************************************************)
\* char.charCodeAt(0) of one character of a for-of iteration: the code unit,
\* or the high surrogate of a character outside the basic plane
CharCodeAt0(codePoint) ==
    IF codePoint > 65535 THEN 55296 + ((codePoint - 65536) \div 1024) ELSE codePoint

\* code.toString(8), as character codes
RECURSIVE OctalText(_)
OctalText(m) ==
    IF m < 8 THEN <<48 + m>>
    ELSE OctalText(m \div 8) \o <<48 + (m % 8)>>

\* code.toString(8).padStart(3, '0')
Octal3(m) ==
    LET octal == OctalText(m)
    IN [i \in 1..(IF Len(octal) < 3 THEN 3 - Len(octal) ELSE 0) |-> 48] \o octal

\* the characters of a piece that is one character outside the basic plane
\* are its two code units
CodeUnits(codePoint) ==
    IF codePoint > 65535
    THEN <<55296 + ((codePoint - 65536) \div 1024), 56320 + ((codePoint - 65536) % 1024)>>
    ELSE <<codePoint>>

\* PDFString.serialize: what one character adds to `escaped`
EscapeChar(char) ==
    LET code == CharCodeAt0(char)
    IN IF char = 40 \/ char = 41 \/ char = 92 THEN <<92, char>>
       ELSE IF code < 32 \/ code > 126 THEN <<92>> \o Octal3(code)
       ELSE CodeUnits(char)

\* escapeString: what one character adds to `result`
EscapeTextChar(char) ==
    LET code == CharCodeAt0(char)
    IN IF char = 40 \/ char = 41 \/ char = 92 THEN <<92, char>>
       ELSE IF code = 10 THEN <<92, 110>>
       ELSE IF code = 13 THEN <<92, 114>>
       ELSE IF code = 9 THEN <<92, 116>>
       ELSE IF code < 32 \/ code > 126 THEN <<92>> \o Octal3(code)
       ELSE CodeUnits(char)

RECURSIVE Concat(_)
Concat(pieces) == IF pieces = <<>> THEN <<>> ELSE Head(pieces) \o Concat(Tail(pieces))

\* PDFString.serialize: the pieces in input order, and "(" escaped ")"
SerializeString(value) ==
    LET pieces == [i \in DOMAIN value |-> EscapeChar(value[i])]
    IN [pieces |-> pieces, text |-> <<40>> \o Concat(pieces) \o <<41>>]

\* escapeString(str)
EscapeString(str) ==
    LET pieces == [i \in DOMAIN str |-> EscapeTextChar(str[i])]
    IN [pieces |-> pieces, text |-> Concat(pieces)]

\* the strings followed: parentheses, backslash, control and printable
\* characters, Latin-1, kana and a character outside the basic plane
StringChars == {40, 41, 92, 9, 10, 31, 32, 65, 126, 127, 255, 511, 512, 12354, 134047}
Strings == UNION {[1..n -> StringChars] : n \in 0..MaxTextLength}

\* new PDFString(input).serialize()
SerializeLiteral ==
    /\ ~HasReturned("PDFString.serialize")
    /\ output' = Append(output, Returned("PDFString.serialize", FALSE, SerializeString(input)))
    /\ PureUnchanged

\* showText(input), as far as the escaped string
ShowText ==
    /\ ~HasReturned("escapeString")
    /\ output' = Append(output, Returned("escapeString", FALSE, EscapeString(input)))
    /\ PureUnchanged

(***************************************************************************)
(* Standard fonts (StandardFonts.ts, both packages).  A family string is    *)
(* the sequence of its characters.                                          *)
(***************************************************************************)
\* String.prototype.toLowerCase, on the letters of the families followed
UpperCase == <<"A", "B", "C", "D", "G", "H", "J", "M", "N", "P", "R", "S", "T", "V">>
LowerCase == <<"a", "b", "c", "d", "g", "h", "j", "m", "n", "p", "r", "s", "t", "v">>
ToLowerCase(str) ==
    [i \in DOMAIN str |->
        IF \E k \in DOMAIN UpperCase : UpperCase[k] = str[i]
        THEN LowerCase[CHOOSE k \in DOMAIN UpperCase : UpperCase[k] = str[i]]
        ELSE str[i]]

\* String.prototype.includes
Includes(str, search) ==
    \E i \in 0..(Len(str) - Len(search)) : SubSeq(str, i + 1, i + Len(search)) = search

IncludesAny(str, keywords) == \E search \in keywords : Includes(str, search)

SansSerifKeyword == <<"s", "a", "n", "s", "-", "s", "e", "r", "i", "f">>

\* packages/core: the keywords of isMonospace and isSerif
MonospaceKeywords ==
    {<<"m", "o", "n", "o", "s", "p", "a", "c", "e">>,
     <<"c", "o", "u", "r", "i", "e", "r">>,
     <<"c", "o", "n", "s", "o", "l", "a", "s">>,
     <<"m", "o", "n", "a", "c", "o">>,
     <<"m", "e", "n", "l", "o">>,
     <<"s", "o", "u", "r", "c", "e", " ", "c", "o", "d", "e">>,
     <<"f", "i", "r", "a", " ", "c", "o", "d", "e">>,
     <<"j", "e", "t", "b", "r", "a", "i", "n", "s">>}
SerifKeywords ==
    {<<"s", "e", "r", "i", "f">>,
     <<"t", "i", "m", "e", "s">>,
     <<"g", "e", "o", "r", "g", "i", "a">>,
     <<"p", "a", "l", "a", "t", "i", "n", "o">>,
     <<"c", "a", "m", "b", "r", "i", "a">>,
     <<"b", "o", "o", "k">>}

\* src: the keywords of the serif and the monospace branch
LegacySerifKeywords ==
    {<<"t", "i", "m", "e", "s">>,
     <<"s", "e", "r", "i", "f">>,
     <<"g", "e", "o", "r", "g", "i", "a">>}
LegacyMonospaceKeywords ==
    {<<"c", "o", "u", "r", "i", "e", "r">>,
     <<"m", "o", "n", "o">>,
     <<"c", "o", "n", "s", "o", "l", "a", "s">>}

\* fontWeight === "bold" || Number(fontWeight) >= 700; a weight carries its
\* literal and Number(fontWeight), -1 standing for NaN
IsBold(fontWeight) == fontWeight.literal = "bold" \/ fontWeight.number >= 700
IsItalic(fontStyle) == fontStyle = "italic" \/ fontStyle = "oblique"

\* the four names of a family by isBold and isItalic
CourierFont(isBold, isItalic) ==
    IF isBold /\ isItalic THEN "Courier-BoldOblique"
    ELSE IF isBold THEN "Courier-Bold"
    ELSE IF isItalic THEN "Courier-Oblique"
    ELSE "Courier"
TimesFont(isBold, isItalic) ==
    IF isBold /\ isItalic THEN "Times-BoldItalic"
    ELSE IF isBold THEN "Times-Bold"
    ELSE IF isItalic THEN "Times-Italic"
    ELSE "Times-Roman"
HelveticaFont(isBold, isItalic) ==
    IF isBold /\ isItalic THEN "Helvetica-BoldOblique"
    ELSE IF isBold THEN "Helvetica-Bold"
    ELSE IF isItalic THEN "Helvetica-Oblique"
    ELSE "Helvetica"

\* packages/core/src/fonts/StandardFonts.ts: mapCSSFontToStandard
mapCSSFontToStandard(fontFamily, fontWeight, fontStyle) ==
    LET family == ToLowerCase(fontFamily)
        isMonospace == IncludesAny(family, MonospaceKeywords)
        isSerif == ~Includes(family, SansSerifKeyword) /\ IncludesAny(family, SerifKeywords)
    IN IF isMonospace THEN CourierFont(IsBold(fontWeight), IsItalic(fontStyle))
       ELSE IF isSerif THEN TimesFont(IsBold(fontWeight), IsItalic(fontStyle))
       ELSE HelveticaFont(IsBold(fontWeight), IsItalic(fontStyle))

\* src/fonts/StandardFonts.ts: mapCSSFontToStandard, the serif branch first
mapCSSFontToStandardLegacy(fontFamily, fontWeight, fontStyle) ==
    LET family == ToLowerCase(fontFamily)
    IN IF IncludesAny(family, LegacySerifKeywords)
       THEN TimesFont(IsBold(fontWeight), IsItalic(fontStyle))
       ELSE IF IncludesAny(family, LegacyMonospaceKeywords)
       THEN CourierFont(IsBold(fontWeight), IsItalic(fontStyle))
       ELSE HelveticaFont(IsBold(fontWeight), IsItalic(fontStyle))

\* the families, weights and styles followed
FontFamilies ==
    {<<"A", "r", "i", "a", "l", ",", " ", "s", "a", "n", "s", "-", "s", "e", "r", "i", "f">>,
     <<"G", "e", "o", "r", "g", "i", "a", ",", " ", "s", "e", "r", "i", "f">>,
     <<"m", "o", "n", "o", "s", "p", "a", "c", "e">>,
     <<"C", "o", "u", "r", "i", "e", "r", " ", "N", "e", "w", ",", " ", "s", "e", "r", "i", "f">>,
     <<"T", "i", "m", "e", "s", " ", "N", "e", "w", " ", "R", "o", "m", "a", "n">>,
     <<"s", "a", "n", "s", "-", "s", "e", "r", "i", "f">>,
     <<"H", "e", "l", "v", "e", "t", "i", "c", "a">>,
     <<"C", "o", "n", "s", "o", "l", "a", "s", ",", " ", "s", "a", "n", "s", "-", "s", "e", "r", "i", "f">>,
     <<"M", "e", "n", "l", "o">>,
     <<"B", "o", "o", "k", "m", "a", "n">>,
     <<"D", "e", "j", "a", "V", "u", " ", "S", "a", "n", "s", " ", "M", "o", "n", "o">>,
     <<>>}
FontWeights == {[literal |-> "400", number |-> 400], [literal |-> "700", number |-> 700],
                [literal |-> "bold", number |-> -1], [literal |-> "normal", number |-> -1]}
FontStyles == {"normal", "italic", "oblique"}
FontRequests == [family : FontFamilies, weight : FontWeights, style : FontStyles]

\* mapCSSFontToStandard(input) of packages/core
MapCSSFont ==
    /\ ~HasReturned("core.mapCSSFontToStandard")
    /\ output' = Append(output, Returned("core.mapCSSFontToStandard", FALSE,
                     mapCSSFontToStandard(input.family, input.weight, input.style)))
    /\ PureUnchanged

\* mapCSSFontToStandard(input) of src
MapCSSFontLegacy ==
    /\ ~HasReturned("src.mapCSSFontToStandard")
    /\ output' = Append(output, Returned("src.mapCSSFontToStandard", FALSE,
                     mapCSSFontToStandardLegacy(input.family, input.weight, input.style)))
    /\ PureUnchanged

(***************************************************************************)
(* Text width of the standard fonts (StandardFonts.ts)                      *)
(***************************************************************************)
\* the widths of the codes 32..126 in table order, in 1/1000 em
HelveticaWidthValues ==
    <<278, 278, 355, 556, 556, 889, 667, 191, 333, 333, 389, 584, 278, 333, 278, 278,
      556, 556, 556, 556, 556, 556, 556, 556, 556, 556, 278, 278, 584, 584, 584, 556,
      1015, 667, 667, 722, 722, 667, 611, 778, 722, 278, 500, 667, 556, 833, 722, 778,
      667, 778, 722, 667, 611, 722, 667, 944, 667, 667, 611, 278, 278, 278, 469, 556,
      333, 556, 556, 500, 556, 556, 278, 556, 556, 222, 222, 500, 222, 833, 556, 556,
      556, 556, 333, 500, 278, 556, 500, 722, 500, 500, 500, 334, 260, 334, 584>>
TimesRomanWidthValues ==
    <<250, 333, 408, 500, 500, 833, 778, 180, 333, 333, 500, 564, 250, 333, 250, 278,
      500, 500, 500, 500, 500, 500, 500, 500, 500, 500, 278, 278, 564, 564, 564, 444,
      921, 722, 667, 667, 722, 611, 556, 722, 722, 333, 389, 722, 611, 889, 722, 722,
      556, 722, 667, 556, 611, 722, 722, 944, 722, 722, 611, 333, 278, 333, 469, 500,
      333, 444, 500, 444, 500, 444, 333, 500, 500, 278, 278, 500, 278, 778, 500, 500,
      500, 500, 333, 389, 278, 500, 500, 722, 500, 500, 444, 480, 200, 480, 541>>

HelveticaWidths == [code \in 32..126 |-> HelveticaWidthValues[code - 31]]
TimesRomanWidths == [code \in 32..126 |-> TimesRomanWidthValues[code - 31]]
CourierWidths == [code \in 32..126 |-> 600]

getFontWidths(fontType) ==
    IF fontType = "serif" THEN TimesRomanWidths
    ELSE IF fontType = "monospace" THEN CourierWidths
    ELSE HelveticaWidths

\* defaultWidth as the width of the family's space character
DefaultWidthOfSpace(fontType) == getFontWidths(fontType)[32]

\* defaultWidth of measureTextWidth
DefaultWidth(fontType) ==
    IF fontType = "monospace" THEN 600 ELSE IF fontType = "serif" THEN 500 ELSE 556

\* widths[code] ?? defaultWidth
CharWidth(widths, code, defaultWidth) ==
    IF code \in DOMAIN widths THEN widths[code] ELSE defaultWidth

RECURSIVE SumWidths(_, _, _)
SumWidths(text, widths, defaultWidth) ==
    IF text = <<>> THEN 0
    ELSE CharWidth(widths, CharCodeAt0(Head(text)), defaultWidth)
         + SumWidths(Tail(text), widths, defaultWidth)

\* packages/core: measureTextWidth(text, fontSize, fontType), the result in
\* 1/1000 pt
measureTextWidth(text, fontSize, fontType) ==
    SumWidths(text, getFontWidths(fontType), DefaultWidth(fontType)) * fontSize

\* src: measureTextWidth(text, fontSize) with the default table, in 1/1000 pt
measureTextWidthOfTable(text, fontSize) ==
    SumWidths(text, HelveticaWidths, 556) * fontSize

\* the texts, sizes and font types followed
MeasuredChars == {31, 32, 65, 126, 127, 160, 12354, 134047}
MeasuredTexts == UNION {[1..n -> MeasuredChars] : n \in 0..MaxTextLength}
FontTypes == {"serif", "sans-serif", "monospace"}
MeasureRequests == [text : MeasuredTexts, fontSize : FontSizes, fontType : FontTypes]

\* measureTextWidth(input) of packages/core
MeasureTextWidth ==
    /\ ~HasReturned("core.measureTextWidth")
    /\ output' = Append(output, Returned("core.measureTextWidth", FALSE,
                     measureTextWidth(input.text, input.fontSize, input.fontType)))
    /\ PureUnchanged

\* measureTextWidth(input.text, input.fontSize) of src
MeasureTextWidthOfTable ==
    /\ ~HasReturned("src.measureTextWidth")
    /\ output' = Append(output, Returned("src.measureTextWidth", FALSE,
                     measureTextWidthOfTable(input.text, input.fontSize)))
    /\ PureUnchanged

(***************************************************************************)
(* UnitConverter (UnitConverter.ts).  Lengths in px and page heights in pt  *)
(* are integers; a converted coordinate is kept in quarter points, which    *)
(* PX_TO_PT_RATIO = 0.75 makes exact.                                       *)
(***************************************************************************)
\* new UnitConverter(pageHeight)
NewUnitConverter(pageHeight) ==
    [pageHeight |-> pageHeight, pageOffsetX |-> 0, pageOffsetY |-> 0]

\* pxToPt(px) = px * PX_TO_PT_RATIO, in quarter points
pxToPt(px) == px * 3

\* convertY without the page offset
convertYUnadjusted(this, cssY, height) ==
    (4 * this.pageHeight) - pxToPt(cssY + height)

\* convertY(cssY, height), in quarter points
convertY(this, cssY, height) ==
    LET adjustedY == cssY - this.pageOffsetY
    IN (4 * this.pageHeight) - pxToPt(adjustedY + height)

\* the page heights, offsets and coordinates followed
ConverterHeights == {842, 400}
ConverterOffsets == {0, 100}
CssYs == {0, 100, 150}
ElementHeights == {0, 50}

ConverterCall(by, args, result) ==
    /\ Len(output) < MaxConverterCalls
    /\ output' = Append(output, Returned(by, FALSE, [args |-> args, result |-> result]))
    /\ UNCHANGED <<docVars, calls, lastCall, ret, input, twin, scan, conversion>>

\* setPageOffset(x, y)
SetPageOffset ==
    \E x \in ConverterOffsets, y \in ConverterOffsets :
        /\ converter' = [converter EXCEPT !.pageOffsetX = x, !.pageOffsetY = y]
        /\ ConverterCall("setPageOffset", <<x, y>>, 0)

\* setPageHeight(height)
SetPageHeight ==
    \E height \in ConverterHeights :
        /\ converter' = [converter EXCEPT !.pageHeight = height]
        /\ ConverterCall("setPageHeight", <<height>>, 0)

\* convertY(cssY, height)
ConvertY ==
    \E cssY \in CssYs, height \in ElementHeights :
        /\ ConverterCall("convertY", <<cssY, height>>, convertY(converter, cssY, height))
        /\ UNCHANGED converter

(***************************************************************************)
(* Two Documents built side by side: the caller makes a call on the first,  *)
(* turns to the second, makes the same call with the same arguments, and    *)
(* turns back.  The FontManager is shared, each save() reads the clock.     *)
(***************************************************************************)
\* new PDFDocument(), with the embed contexts handed out for it
NewDocument ==
    [pages |-> <<>>, fonts |-> EmptyMap, images |-> EmptyMap, objects |-> <<>>,
     nextObjectNumber |-> 1,
     contexts |-> [c \in 1..MaxContexts |-> [live |-> FALSE, nextObjectNumber |-> 0]],
     files |-> <<>>]

\* the second Document of a pair, before any call
NewTwin ==
    [active |-> 1, calls |-> 0, lastCall |-> Called("new", "none"), document |-> NewDocument]

\* the same call with the same arguments; save() takes none, its key is the
\* clock it read
SameCall(a, b) ==
    /\ a.op = b.op
    /\ a.op # "save" => (a.key = b.key /\ a.args = b.args)

\* a call is due on the Document the caller holds
InTurn ==
    \/ twin.active = 1 /\ calls = twin.calls
    \/ twin.active = 2 /\ calls < twin.calls /\ SameCall(lastCall', twin.lastCall)

\* the caller puts the Document down and takes up the other one
TurnToOtherDocument ==
    /\ \/ twin.active = 1 /\ calls = twin.calls + 1
       \/ twin.active = 2 /\ calls = twin.calls /\ calls < MaxCalls
    /\ twin' = [active |-> 3 - twin.active, calls |-> calls, lastCall |-> lastCall,
                document |-> [pages |-> pages, fonts |-> fonts, images |-> images,
                              objects |-> objects, nextObjectNumber |-> nextObjectNumber,
                              contexts |-> contexts, files |-> files]]
    /\ pages' = twin.document.pages
    /\ fonts' = twin.document.fonts
    /\ images' = twin.document.images
    /\ objects' = twin.document.objects
    /\ nextObjectNumber' = twin.document.nextObjectNumber
    /\ contexts' = twin.document.contexts
    /\ files' = twin.document.files
    /\ calls' = twin.calls
    /\ lastCall' = twin.lastCall
    /\ ret' = "undefined"
    /\ UNCHANGED <<loaded, stream, serialized, input, output, converter, scan,
                   conversion>>

(***************************************************************************)
(* ImageRenderer.embedImage: the marker scan of parseJPEGInfo and the chunk *)
(* scan of extractPNGData, one loop iteration at a time.                    *)
(***************************************************************************)
NewScan == [pc |-> "start", offset |-> 0]

\* data[i] as an operand of << and |, and as an argument of
\* String.fromCharCode: undefined, outside the array, counts as 0
ByteOrZero(data, i) == IF 0 <= i /\ i < Len(data) THEN data[i + 1] ELSE 0

\* the top byte of the 32-bit signed integer the bitwise operators return
SignedByte(byte) == IF byte >= 128 THEN byte - 256 ELSE byte

\* (data[offset] << 24) | (data[offset + 1] << 16) | (data[offset + 2] << 8)
\* | data[offset + 3]
ChunkLength(data, offset) ==
    SignedByte(ByteOrZero(data, offset)) * 2^24 + ByteOrZero(data, offset + 1) * 2^16
    + ByteOrZero(data, offset + 2) * 2^8 + ByteOrZero(data, offset + 3)

\* String.fromCharCode(data[offset + 4], ..., data[offset + 7])
ChunkType(data, offset) ==
    <<ByteOrZero(data, offset + 4), ByteOrZero(data, offset + 5),
      ByteOrZero(data, offset + 6), ByteOrZero(data, offset + 7)>>

IDAT == <<73, 68, 65, 84>>
IEND == <<73, 69, 78, 68>>

\* (data[offset + 2] << 8) | data[offset + 3]
SegmentLength(data, offset) ==
    ByteOrZero(data, offset + 2) * 2^8 + ByteOrZero(data, offset + 3)

\* the start-of-frame markers parseJPEGInfo stops at
IsStartOfFrame(marker) ==
    marker >= 192 /\ marker <= 207 /\ marker \notin {196, 200, 204}

\* the byte arrays followed: the JPEG start-of-image marker or the PNG
\* signature, then up to MaxChunks segments or chunks, well-formed,
\* truncated, or with a length field that points past the end of the data
\* or, read as a signed 32-bit integer, backwards
MaxChunks == 2
JPEGSegments ==
    {<<255, 224, 0, 2>>,
     <<255, 224, 0, 0>>,
     <<255, 192, 0, 11, 8, 0, 1, 0, 1, 3>>,
     <<255, 254, 255, 255>>,
     <<255>>,
     <<0>>}
PNGChunks ==
    {<<0, 0, 0, 0, 116, 69, 88, 116, 0, 0, 0, 0>>,
     <<0, 0, 0, 1, 73, 68, 65, 84, 7, 0, 0, 0, 0>>,
     <<0, 0, 0, 0, 73, 69, 78, 68, 0, 0, 0, 0>>,
     <<255, 255, 255, 244, 116, 69, 88, 116>>,
     <<255, 255, 255, 232, 116, 69, 88, 116, 0, 0, 0, 0>>,
     <<0, 0, 1, 0, 116, 69, 88, 116>>,
     <<0, 0>>}
ScanInputs ==
    {<<255, 216>> \o Concat(segments) :
        segments \in UNION {[1..n -> JPEGSegments] : n \in 0..MaxChunks}}
    \cup {PNGSignature \o Concat(chunks) :
        chunks \in UNION {[1..n -> PNGChunks] : n \in 0..MaxChunks}}

ScanStep(pc, offset) ==
    /\ scan' = [pc |-> pc, offset |-> offset]
    /\ UNCHANGED <<docVars, calls, lastCall, ret, input, output, converter, twin,
                   conversion>>

\* embedImage(input, context) up to the first loop: detectImageType, then
\* parseJPEGInfo from offset 2, or parsePNGInfo and extractPNGData from
\* offset 8
EmbedImageBegin ==
    /\ scan.pc = "start"
    /\ CASE DetectImageType(input) = "jpeg" -> ScanStep("parseJPEGInfo", 2)
         [] DetectImageType(input) = "png" -> ScanStep("extractPNGData", 8)
         [] OTHER -> ScanStep("threw", 0)

\* one test of the while condition of parseJPEGInfo and, if it holds, one
\* iteration
ParseJPEGInfoStep ==
    /\ scan.pc = "parseJPEGInfo"
    /\ IF ~(scan.offset < Len(input)) THEN ScanStep("threw", scan.offset)
       ELSE IF ByteOrZero(input, scan.offset) # 255 THEN ScanStep("threw", scan.offset)
       ELSE IF IsStartOfFrame(ByteOrZero(input, scan.offset + 1))
       THEN ScanStep("scanned", scan.offset)
       ELSE ScanStep("parseJPEGInfo", scan.offset + SegmentLength(input, scan.offset) + 2)

\* one test of the while condition of extractPNGData and, if it holds, one
\* iteration
ExtractPNGDataStep ==
    /\ scan.pc = "extractPNGData"
    /\ IF ~(scan.offset < Len(input)) THEN ScanStep("scanned", scan.offset)
       ELSE IF ChunkType(input, scan.offset) # IDAT /\ ChunkType(input, scan.offset) = IEND
       THEN ScanStep("scanned", scan.offset)
       ELSE ScanStep("extractPNGData", scan.offset + 12 + ChunkLength(input, scan.offset))

(***************************************************************************)
(* TextRenderer: wrapTextByFontMetrics.  Widths are counted in units of    *)
(* 1/unitsPerEm pt, so that advanceWidth * fontSize / unitsPerEm is exact.  *)
(***************************************************************************)
\* (glyph.advanceWidth ?? 0) * scale, with scale = fontSize / unitsPerEm
WrapCharWidth(font, char, fontSize) ==
    AdvanceWidth(font, CharToGlyph(font, char)) * fontSize

\* the loop of wrapTextByFontMetrics over the characters of text
RECURSIVE WrapLoop(_, _, _, _, _)
WrapLoop(font, text, fontSize, maxWidthPt, st) ==
    IF text = <<>> THEN st
    ELSE LET char == Head(text)
             charWidth == WrapCharWidth(font, char, fontSize)
         IN WrapLoop(font, Tail(text), fontSize, maxWidthPt,
                IF st.currentWidth + charWidth > maxWidthPt * UnitsPerEm(font)
                   /\ Len(st.currentLine) > 0
                THEN [lines |-> Append(st.lines, st.currentLine),
                      currentLine |-> <<char>>,
                      currentWidth |-> charWidth]
                ELSE [lines |-> st.lines,
                      currentLine |-> Append(st.currentLine, char),
                      currentWidth |-> st.currentWidth + charWidth])

WrapStart == [lines |-> <<>>, currentLine |-> <<>>, currentWidth |-> 0]

\* wrapTextByFontMetrics without the push of the last line
wrapTextByFontMetricsUnflushed(font, text, fontSize, maxWidthPt) ==
    WrapLoop(font, text, fontSize, maxWidthPt, WrapStart).lines

\* wrapTextByFontMetrics(font, text, fontSize, maxWidthPt)
wrapTextByFontMetrics(font, text, fontSize, maxWidthPt) ==
    LET st == WrapLoop(font, text, fontSize, maxWidthPt, WrapStart)
    IN IF Len(st.currentLine) > 0 THEN Append(st.lines, st.currentLine) ELSE st.lines

\* the requests followed: texts of up to MaxWrapLength characters, two of
\* them without a glyph and one outside the basic plane, and available
\* widths that are negative, zero, room for one character, for two, for all
MaxWrapLength == 3
WrapCodePoints == {65, 66, 12354, 134047}
WrapWidthsPt == {-1, 0, 10, 20, 100}
WrapRequests ==
    [text : UNION {[1..n -> WrapCodePoints] : n \in 0..MaxWrapLength},
     fontSize : FontSizes,
     maxWidthPt : WrapWidthsPt]

\* wrapTextByFontMetrics(loadedFont, input.text, input.fontSize, input.maxWidthPt)
WrapTextByFontMetrics ==
    /\ ~HasReturned("wrapTextByFontMetrics")
    /\ output' = Append(output, Returned("wrapTextByFontMetrics", FALSE,
                     wrapTextByFontMetrics("NotoSansJP", input.text, input.fontSize,
                                           input.maxWidthPt)))
    /\ PureUnchanged

(***************************************************************************)
(* convert(): the page it creates                                          *)
(***************************************************************************)
\* PAGE_SIZES.Letter, in pt
LetterSize == [width |-> 612, height |-> 792]

\* the options and element sizes followed: element sizes in px, margins and
\* custom formats in mm, chosen so that the conversions to pt are exact
\* (96 px = 72 pt, 127 mm = 360 pt)
Formats == {[kind |-> "auto", mm |-> <<0, 0>>], [kind |-> "custom", mm |-> <<127, 254>>],
            [kind |-> "custom", mm |-> <<0, 0>>], [kind |-> "named", mm |-> <<0, 0>>]}
Orientations == {"portrait", "landscape"}
MarginsMm == {0, 127}
ElementSizesPx == {<<0, 0>>, <<400, 200>>}

\* px to pt (72 / 96) and mm to pt (72 / 25.4)
PxToPt(px) == (px * 72) \div 96
MmToPt(mm) == (mm * 720) \div 254

\* convert: pageWidth and pageHeight from format, orientation, margin and the
\* element's bounding rectangle
ConvertPageSize(format, orientation, margin, elementRect) ==
    IF format.kind = "auto"
    THEN <<PxToPt(elementRect[1]) + MmToPt(margin) + MmToPt(margin),
           PxToPt(elementRect[2]) + MmToPt(margin) + MmToPt(margin)>>
    ELSE IF format.kind = "custom"
    THEN <<MmToPt(format.mm[1]), MmToPt(format.mm[2])>>
    ELSE IF orientation = "landscape"
    THEN <<LetterSize.height, LetterSize.width>>
    ELSE <<LetterSize.width, LetterSize.height>>

\* convert(element, options) up to doc.addPage(pageWidth, pageHeight)
ConvertPage ==
    \E format \in Formats, orientation \in Orientations, margin \in MarginsMm,
       elementRect \in ElementSizesPx :
        LET size == ConvertPageSize(format, orientation, margin, elementRect)
        IN /\ Len(pages) < MaxPages
           /\ pages' = Append(pages, NewPage(size[1], size[2]))
           /\ ret' = Len(pages) + 1
           /\ Call("convert", format.kind)
           /\ UNCHANGED <<fonts, images, objects, nextObjectNumber, contexts, files,
                          loaded, stream, serialized, input, output, otherVars>>


(***************************************************************************)
(* convert(): the render nodes walkDOM returns and their rendering         *)
(* (renderNode, renderElementNode, BoxRenderer, TextRenderer).              *)
(***************************************************************************)
\* a RenderNode with the fields the renderers read; styles.backgroundImage
\* and styles.backgroundColor are one field, border is the number of sides
\* shouldRenderBorder accepts
RenderNode(type, needsClipping, background, border, children, font, textContent, maxWidth) ==
    [type |-> type, needsClipping |-> needsClipping, background |-> background,
     border |-> border, children |-> children, font |-> font,
     textContent |-> textContent, maxWidth |-> maxWidth]

NodeFont(family, size) ==
    [family |-> family, weight |-> [literal |-> "400", number |-> 400],
     style |-> "normal", size |-> size]

TextNode(family, size, textContent, maxWidth) ==
    RenderNode("text", FALSE, "none", 0, <<>>, NodeFont(family, size), textContent, maxWidth)
ElementNode(needsClipping, background, border, children) ==
    RenderNode("element", needsClipping, background, border, children,
               NodeFont(<<>>, 0), <<>>, 0)
ImageNode == RenderNode("image", FALSE, "none", 0, <<>>, NodeFont(<<>>, 0), <<>>, 0)

\* createTextRenderContext(page, converter, options)
createTextRenderContext(custom_fonts, japanese_fallback_font) ==
    [fontMappings |-> <<>>, nextFontId |-> 1, custom_fonts |-> custom_fonts,
     japanese_fallback_font |-> japanese_fallback_font, used_text_by_font |-> EmptyMap]

\* the page and the text context a rendering works on, the draw calls it
\* has made on the page, and whether it has thrown
RenderState(page, context, drawn, threw) ==
    [page |-> page, context |-> context, drawn |-> drawn, threw |-> threw]

\* `F${context.nextFontId++}`
PdfFontNames == <<"F1", "F2", "F3">>
PdfFontName(id) == PdfFontNames[id]

\* the keys of context.fontMappings: `${family}|${weight}|${style}` and
\* `__japanese_fallback__${name}`
FontKey(font) ==
    [fallback |-> "", family |-> font.family, weight |-> font.weight, style |-> font.style]
FallbackKey(fallback_font_name) ==
    [fallback |-> fallback_font_name, family |-> <<>>,
     weight |-> [literal |-> "", number |-> 0], style |-> ""]

\* context.fontMappings.get(fontKey): the mappings with that key
MappingsOf(context, fontKey) ==
    SelectSeq(context.fontMappings, LAMBDA m : m.key = fontKey)

\* a new mapping, set into context.fontMappings under fontKey
CreateMapping(context, fontKey, baseFontName, is_cid, loaded_font) ==
    LET mapping == [key |-> fontKey, pdfName |-> PdfFontName(context.nextFontId),
                    baseFontName |-> baseFontName, is_cid |-> is_cid,
                    loaded_font |-> loaded_font]
    IN [threw |-> FALSE, mapping |-> mapping,
        context |-> [context EXCEPT !.nextFontId = @ + 1,
                                    !.fontMappings = Append(@, mapping)]]

\* findCustomFont(font, context): the custom fonts one of whose css_families
\* the lower-cased family includes, in the order of context.custom_fonts
findCustomFont(font, context) ==
    SelectSeq(context.custom_fonts,
              LAMBDA customFont :
                  \E f \in customFont.css_families :
                      Includes(ToLowerCase(font.family), ToLowerCase(f)))

\* getOrCreateFontMapping(font, context)
getOrCreateFontMapping(font, context) ==
    LET found == MappingsOf(context, FontKey(font))
        customFont == findCustomFont(font, context)
    IN IF found # <<>>
       THEN [threw |-> FALSE, mapping |-> found[1], context |-> context]
       ELSE IF customFont # <<>>
       THEN CreateMapping(context, FontKey(font), customFont[1].font, TRUE,
                          customFont[1].font)
       ELSE CreateMapping(context, FontKey(font),
                          mapCSSFontToStandard(font.family, font.weight, font.style),
                          FALSE, "none")

\* getOrCreateJapaneseFallbackMapping(fallback_font_name, context): throws
\* when context.custom_fonts has no font of that name
getOrCreateJapaneseFallbackMapping(fallback_font_name, context) ==
    LET found == MappingsOf(context, FallbackKey(fallback_font_name))
        customFont == SelectSeq(context.custom_fonts,
                                LAMBDA c : c.name = fallback_font_name)
    IN IF found # <<>>
       THEN [threw |-> FALSE, mapping |-> found[1], context |-> context]
       ELSE IF customFont = <<>>
       THEN [threw |-> TRUE, mapping |-> <<>>, context |-> context]
       ELSE CreateMapping(context, FallbackKey(fallback_font_name), customFont[1].font,
                          TRUE, customFont[1].font)

\* markUsedCodePoints(context, fontName, text): the Set of the font keeps
\* the code points of the for-of iteration in order of first insertion
markUsedCodePoints(context, fontName, text) ==
    [context EXCEPT !.used_text_by_font =
        MapSet(@, fontName,
               InsertionOrder((IF fontName \in DOMAIN @ THEN @[fontName] ELSE <<>>) \o text))]

\* Array.from(usedCodePoints).map((cp) => String.fromCodePoint(cp)).join(""):
\* the code units of the string
UsedTextOf(usedCodePoints) ==
    Concat([k \in DOMAIN usedCodePoints |-> CodeUnits(usedCodePoints[k])])

\* the characters of a for-of iteration over a string, as code points: a
\* high surrogate followed by a low surrogate is one character
RECURSIVE StringCodePoints(_)
StringCodePoints(units) ==
    IF units = <<>> THEN <<>>
    ELSE IF /\ Len(units) >= 2
            /\ units[1] \in 55296..56319
            /\ units[2] \in 56320..57343
    THEN <<65536 + (units[1] - 55296) * 1024 + (units[2] - 56320)>>
         \o StringCodePoints(SubSeq(units, 3, Len(units)))
    ELSE <<units[1]>> \o StringCodePoints(Tail(units))

\* isJapaneseChar(codePoint) and containsJapanese(text)
isJapaneseChar(codePoint) ==
    \/ codePoint \in 12352..12447
    \/ codePoint \in 12448..12543
    \/ codePoint \in 12784..12799
    \/ codePoint \in 65381..65439
    \/ codePoint \in 19968..40959
    \/ codePoint \in 13312..19903
    \/ codePoint \in 63744..64255
    \/ codePoint \in 131072..201551
    \/ codePoint \in 12288..12351
    \/ codePoint \in 65281..65374
containsJapanese(text) == \E i \in DOMAIN text : isJapaneseChar(text[i])

\* !textContent.trim(): nothing but white space
IsBlank(textContent) == \A i \in DOMAIN textContent : textContent[i] \in {9, 10, 13, 32, 160}

\* converter.convertFontSize(font.size), and the available width of
\* renderTextWithJapaneseFallback for a text that starts at the left edge of
\* its container, in pt; exact for the multiples of 4 px followed
convertFontSize(cssPx) == pxToPt(cssPx) \div 4
AvailableWidthPt(node) == pxToPt(node.maxWidth) \div 4

\* the options.color and options.letterSpacing of the text draw calls
NodeTextStyle == [color |-> TRUE, letterSpacing |-> 0]

\* a page.drawText or page.drawTextCID call, and its entry in the call log
DrawOnPage(rs, op, font, fontSize, text) ==
    [rs EXCEPT !.page = IF op = "drawTextCID"
                        THEN drawTextCID(@, font, fontSize, NodeTextStyle)
                        ELSE drawText(@, font, fontSize, NodeTextStyle),
               !.drawn = Append(@, [op |-> op, font |-> font, fontSize |-> fontSize,
                                    text |-> text])]

\* the loop of renderTextWithJapaneseFallback over the wrapped lines
RECURSIVE DrawLines(_, _, _, _)
DrawLines(lines, rs, pdfName, pdfFontSize) ==
    IF lines = <<>> THEN rs
    ELSE DrawLines(Tail(lines),
             DrawOnPage([rs EXCEPT !.context = markUsedCodePoints(@, pdfName, Head(lines))],
                        "drawTextCID", pdfName, pdfFontSize, Head(lines)),
             pdfName, pdfFontSize)

\* renderTextWithJapaneseFallback(node, context)
renderTextWithJapaneseFallback(node, rs) ==
    LET got == getOrCreateJapaneseFallbackMapping(rs.context.japanese_fallback_font,
                                                  rs.context)
        pdfFontSize == convertFontSize(node.font.size)
        lines == wrapTextByFontMetrics(got.mapping.loaded_font, node.textContent,
                                       pdfFontSize, AvailableWidthPt(node))
    IN IF got.threw THEN [rs EXCEPT !.threw = TRUE]
       ELSE DrawLines(lines, [rs EXCEPT !.context = got.context],
                      got.mapping.pdfName, pdfFontSize)

\* renderText(node, context), for families that are not monospace
renderText(node, rs) ==
    IF IsBlank(node.textContent) THEN rs
    ELSE IF rs.context.japanese_fallback_font # "undefined"
            /\ containsJapanese(node.textContent)
    THEN renderTextWithJapaneseFallback(node, rs)
    ELSE LET got == getOrCreateFontMapping(node.font, rs.context)
             pdfName == got.mapping.pdfName
             pdfFontSize == convertFontSize(node.font.size)
         IN IF got.mapping.is_cid
            THEN DrawOnPage([rs EXCEPT !.context =
                                markUsedCodePoints(got.context, pdfName, node.textContent)],
                            "drawTextCID", pdfName, pdfFontSize, node.textContent)
            ELSE DrawOnPage([rs EXCEPT !.context = got.context],
                            "drawText", pdfName, pdfFontSize, node.textContent)

\* the bands of a linear gradient the model follows; renderLinearGradient
\* draws Math.max(50, ...) of them
MaxBands == 2

\* renderLinearGradient: setFillColorRGB, rect and fill for every band
RECURSIVE Bands(_)
Bands(count) ==
    IF count = 0 THEN <<>>
    ELSE <<Command("rg", <<>>), Command("re", <<>>), Command("f", <<>>)>> \o Bands(count - 1)

\* renderGradientBackground, without rounded corners
renderGradientBackground(page, type) ==
    Emit(page,
        saveState
        \o (IF type = "linear" THEN Bands(MaxBands)
            ELSE <<Command("rg", <<>>), Command("re", <<>>), Command("f", <<>>)>>)
        \o restoreState)

\* renderBorderLine, for a solid side
renderBorderLine(page) ==
    Emit(page,
        saveState
        \o <<Command("w", <<>>), Command("RG", <<>>), Command("m", <<>>),
             Command("l", <<>>), Command("S", <<>>)>>
        \o restoreState)

\* renderBorders: one renderBorderLine for every side to render
RECURSIVE renderBorders(_, _)
renderBorders(page, sides) ==
    IF sides = 0 THEN page ELSE renderBorders(renderBorderLine(page), sides - 1)

\* renderBox(page, styles, converter), without rounded corners
renderBox(page, node) ==
    renderBorders(
        IF node.background \in {"linear", "radial"}
        THEN renderGradientBackground(page, node.background)
        ELSE IF node.background = "color"
        THEN drawRect(page, [fill |-> TRUE, stroke |-> FALSE, lineWidth |-> FALSE])
        ELSE page,
        node.border)

RECURSIVE renderNode(_, _, _)
RECURSIVE renderChildren(_, _, _)

\* renderElementNode without its closing page.restoreState()
renderElementNodeUnrestored(node, rs, includeBackground) ==
    LET clipped == IF node.needsClipping
                   THEN [rs EXCEPT !.page = setClipRect(Emit(@, saveState))]
                   ELSE rs
        boxed == IF includeBackground
                 THEN [clipped EXCEPT !.page = renderBox(@, node)]
                 ELSE clipped
    IN renderChildren(node.children, boxed, includeBackground)

\* renderElementNode(node, page, converter, textContext, includeBackground);
\* an exception thrown below it leaves it at once
renderElementNode(node, rs, includeBackground) ==
    LET clipped == IF node.needsClipping
                   THEN [rs EXCEPT !.page = setClipRect(Emit(@, saveState))]
                   ELSE rs
        boxed == IF includeBackground
                 THEN [clipped EXCEPT !.page = renderBox(@, node)]
                 ELSE clipped
        rendered == renderChildren(node.children, boxed, includeBackground)
    IN IF node.needsClipping /\ ~rendered.threw
       THEN [rendered EXCEPT !.page = Emit(@, restoreState)]
       ELSE rendered

\* the loop of renderElementNode over the children
renderChildren(children, rs, includeBackground) ==
    IF children = <<>> \/ rs.threw THEN rs
    ELSE renderChildren(Tail(children), renderNode(Head(children), rs, includeBackground),
                        includeBackground)

\* renderNode(node, page, converter, textContext, includeBackground)
renderNode(node, rs, includeBackground) ==
    IF node.type = "text" THEN renderText(node, rs)
    ELSE IF node.type = "element" THEN renderElementNode(node, rs, includeBackground)
    ELSE rs

(***************************************************************************)
(* convert(): its steps from reportProgress(0) to reportProgress(1).        *)
(* Progress is counted in hundredths.                                       *)
(***************************************************************************)
\* no convert() call under way
NewConversion ==
    [pc |-> "idle", renderNodes |-> <<>>, index |-> 0, background |-> TRUE,
     context |-> createTextRenderContext(<<>>, "undefined"), drawn |-> <<>>,
     fontMappings |-> <<>>, fontIndex |-> 0, embedded |-> <<>>, progress |-> <<>>]

\* the render trees followed.  Texts: Latin text in a standard font at two
\* sizes, text in the family of the custom font, text in that family with a
\* character outside the basic plane and two unpaired surrogates, and text
\* with a Japanese character that wraps into two lines when the fallback
\* font draws it
HelveticaFamily == <<"H", "e", "l", "v", "e", "t", "i", "c", "a">>
NotoFamily == <<"N", "o", "t", "o", " ", "S", "a", "n", "s", " ", "J", "P">>
TextNodes ==
    {TextNode(HelveticaFamily, 16, <<65>>, 400),
     TextNode(HelveticaFamily, 32, <<65>>, 400),
     TextNode(NotoFamily, 16, <<65, 128512>>, 400),
     TextNode(NotoFamily, 16, <<65, 55357, 65, 56832>>, 400),
     TextNode(HelveticaFamily, 16, <<12354, 65>>, 0)}

\* elements inside the root: clipped or not, with or without a gradient,
\* around at most one text
InnerNodes ==
    {ElementNode(needsClipping, background, 0, children) :
        needsClipping \in BOOLEAN, background \in {"none", "linear"},
        children \in {<<>>} \cup {<<text>> : text \in TextNodes}}

\* the root element: up to MaxChildren texts and elements below it
MaxChildren == 2
RootNodes ==
    {ElementNode(needsClipping, "color", 1, children) :
        needsClipping \in BOOLEAN,
        children \in UNION {[1..n -> TextNodes \cup InnerNodes] : n \in 0..MaxChildren}}

\* walkDOM(element, options): nothing for an ignored or invisible root, else
\* the one node of the root, its descendants below it
RenderTrees == {<<>>, <<ImageNode>>} \cup {<<root>> : root \in RootNodes}

\* options.fonts, loaded, and options.japanese_fallback
NotoConfig == [name |-> "NotoSansJP", font |-> "NotoSansJP", css_families |-> {NotoFamily}]
FontOptions ==
    {[fonts |-> <<>>, japanese_fallback |-> "undefined"],
     [fonts |-> <<NotoConfig>>, japanese_fallback |-> "undefined"],
     [fonts |-> <<NotoConfig>>, japanese_fallback |-> "NotoSansJP"],
     [fonts |-> <<>>, japanese_fallback |-> "NotoSansJP"]}

Conversions == [renderNodes : RenderTrees, options : FontOptions]

\* reportProgress(progress): onProgress?.(Math.min(1, Math.max(0, progress)))
reportProgress(reported, progress) ==
    Append(reported, IF progress < 0 THEN 0 ELSE IF progress > 100 THEN 100 ELSE progress)

\* 0.4 + (0.5 * (index + 1)) / renderNodes.length
NodeProgressAfter(index, length) == 40 + (50 * (index + 1)) \div length

\* 0.4 + (0.5 * index) / renderNodes.length; exact for the lengths walkDOM
\* returns
NodeProgress(index, length) == 40 + (50 * index) \div length

\* what a step of convert() leaves alone besides the document
ConvertStep ==
    UNCHANGED <<images, contexts, loaded, stream, serialized, input, output, twin, scan>>

\* convert(element, options) from reportProgress(0) to reportProgress(0.4):
\* the page size, the document, the fonts, the converter, walkDOM, addPage
\* and the text context
ConvertBegin ==
    LET size == ConvertPageSize([kind |-> "named", mm |-> <<0, 0>>], "portrait", 0,
                                <<400, 200>>)
    IN /\ conversion.pc = "idle"
       /\ Len(pages) < MaxPages
       /\ pages' = Append(pages, NewPage(size[1], size[2]))
       /\ converter' = NewUnitConverter(size[2])
       /\ conversion' = [NewConversion EXCEPT
              !.pc = "render",
              !.renderNodes = input.renderNodes,
              !.context = createTextRenderContext(input.options.fonts,
                                                  input.options.japanese_fallback),
              !.progress = reportProgress(reportProgress(reportProgress(reportProgress(
                               reportProgress(reportProgress(<<>>, 0), 10), 20), 25), 30), 40)]
       /\ Call("convert", "named")
       /\ UNCHANGED <<fonts, objects, nextObjectNumber, files, ret>>
       /\ ConvertStep

\* one iteration of renderNodes.forEach: renderNode, then reportProgress; an
\* exception ends the call
ConvertRenderNode ==
    LET index == conversion.index
        rs == renderNode(conversion.renderNodes[index + 1],
                         RenderState(pages[1], conversion.context, conversion.drawn, FALSE),
                         conversion.background)
    IN /\ conversion.pc = "render"
       /\ index < Len(conversion.renderNodes)
       /\ pages' = [pages EXCEPT ![1] = rs.page]
       /\ conversion' =
              IF rs.threw
              THEN [conversion EXCEPT !.pc = "threw", !.context = rs.context,
                                      !.drawn = rs.drawn]
              ELSE [conversion EXCEPT
                       !.index = index + 1, !.context = rs.context, !.drawn = rs.drawn,
                       !.progress = reportProgress(@,
                                        NodeProgress(index, Len(conversion.renderNodes)))]
       /\ UNCHANGED <<fonts, objects, nextObjectNumber, files, ret, calls, lastCall,
                      converter>>
       /\ ConvertStep

\* after the last render node: reportProgress(0.85) and getAllFontMappings
ConvertCollectFonts ==
    /\ conversion.pc = "render"
    /\ conversion.index = Len(conversion.renderNodes)
    /\ conversion' = [conversion EXCEPT
           !.pc = "fonts",
           !.fontMappings = conversion.context.fontMappings,
           !.progress = reportProgress(@, 85)]
    /\ UNCHANGED <<pages, fonts, objects, nextObjectNumber, files, ret, calls, lastCall,
                   converter>>
    /\ ConvertStep

\* one iteration of the loop over fontMappings: addCustomFont with the used
\* code points of the mapping, or addStandardFont, then applyFontToPage
ConvertEmbedFont ==
    LET mapping == conversion.fontMappings[conversion.fontIndex + 1]
        used == conversion.context.used_text_by_font
        usedText == IF mapping.pdfName \in DOMAIN used
                    THEN UsedTextOf(used[mapping.pdfName]) ELSE <<>>
    IN /\ conversion.pc = "fonts"
       /\ conversion.fontIndex < Len(conversion.fontMappings)
       /\ IF mapping.is_cid
          THEN AddCustomFontBody(mapping.pdfName, mapping.loaded_font,
                                 Range(StringCodePoints(usedText)))
          ELSE AddStandardFontBody(mapping.pdfName, mapping.baseFontName)
       /\ pages' = [pages EXCEPT ![1] =
                       PageAddFont(@, mapping.pdfName, fonts'[mapping.pdfName].ref)]
       /\ conversion' = [conversion EXCEPT
              !.fontIndex = @ + 1,
              !.embedded = Append(@, [pdfName |-> mapping.pdfName, is_cid |-> mapping.is_cid,
                                      usedText |-> IF mapping.is_cid THEN usedText
                                                   ELSE <<>>])]
       /\ UNCHANGED <<files, calls, lastCall, converter>>
       /\ ConvertStep

\* after the last font: reportProgress(0.95), doc.save(), reportProgress(1)
ConvertSave ==
    \E now \in Clock :
        LET file == SaveFile(nextObjectNumber, now)
        IN /\ conversion.pc = "fonts"
           /\ conversion.fontIndex = Len(conversion.fontMappings)
           /\ Len(files) < MaxSaves
           /\ file.size <= MaxObjectNumber + 1
           /\ files' = Append(files, file)
           /\ nextObjectNumber' = file.size
           /\ ret' = Len(files) + 1
           /\ conversion' = [conversion EXCEPT
                  !.pc = "returned",
                  !.progress = reportProgress(reportProgress(@, 95), 100)]
           /\ UNCHANGED <<pages, fonts, objects, calls, lastCall, converter>>
           /\ ConvertStep

\* the state outside the document, before anything has run
InitOthers ==
    /\ converter = [pageHeight |-> 0, pageOffsetX |-> 0, pageOffsetY |-> 0]
    /\ twin = NewTwin
    /\ scan = NewScan
    /\ conversion = NewConversion

Init ==
    /\ pages = <<>>
    /\ fonts = EmptyMap
    /\ images = EmptyMap
    /\ objects = <<>>
    /\ nextObjectNumber = 1
    /\ contexts = [c \in 1..MaxContexts |-> [live |-> FALSE, nextObjectNumber |-> 0]]
    /\ files = <<>>
    /\ ret = "none"
    /\ lastCall = Called("new", "none")
    /\ calls = 0
    /\ loaded = [f \in LoadedFontNames |-> {}]
    /\ stream = [data |-> <<>>, dict |-> EmptyMap]
    /\ serialized = <<>>
    /\ input = <<>>
    /\ output = <<>>
    /\ InitOthers

\* a document with one page, ready for drawing
InitPage ==
    /\ Init!2 /\ Init!3 /\ Init!4 /\ Init!5 /\ Init!6 /\ Init!7 /\ Init!8
    /\ Init!9 /\ Init!10 /\ Init!11 /\ Init!12 /\ Init!13 /\ Init!14 /\ Init!15
    /\ Init!16
    /\ pages = <<NewPage(595, 842)>>

\* the document: pages, fonts, images, embed contexts and save()
Next ==
    \/ AddPage
    \/ AddStandardFont
    \/ AddCustomFont
    \/ ApplyFontToPage
    \/ AddImage
    \/ ApplyImageToPage
    \/ GetEmbedContext
    \/ EmbedImage
    \/ SyncEmbedContext
    \/ Save

Spec == Init /\ [][Next]_vars

\* font and image registration alone
NextRegistry ==
    \/ AddStandardFont
    \/ AddCustomFont
    \/ AddImage
    \/ GetEmbedContext
    \/ EmbedImage
    \/ SyncEmbedContext

SpecRegistry == Init /\ [][NextRegistry]_vars

\* drawing on one page
NextPage ==
    \/ DrawText
    \/ DrawTextUnicode
    \/ DrawTextCID
    \/ DrawLine
    \/ DrawRect
    \/ DrawImage
    \/ SetClipRect
    \/ SaveState
    \/ RestoreState
    \/ AddFont
    \/ PageImage

SpecPage == InitPage /\ [][NextPage]_vars

\* a loaded font: text is marked as used, the font is embedded
NextFont ==
    \/ MarkGlyphsAsUsed
    \/ AddCustomFont

SpecFont == Init /\ [][NextFont]_vars

\* one PDFStream object
NextStream ==
    \/ NewStream
    \/ SetStreamData
    \/ SetStreamLength
    \/ SerializeStream

SpecStream == Init /\ [][NextStream]_vars
\* drawing text and images on one page, registering on it, and saving
NextPageSave ==
    \/ DrawText
    \/ DrawTextUnicode
    \/ DrawTextCID
    \/ DrawImage
    \/ AddFont
    \/ PageImage
    \/ Save

SpecPageSave == InitPage /\ [][NextPageSave]_vars

\* the state of Init, apart from the function argument
Constructed ==
    /\ Init!1 /\ Init!2 /\ Init!3 /\ Init!4 /\ Init!5 /\ Init!6 /\ Init!7
    /\ Init!8 /\ Init!9 /\ Init!10 /\ Init!11 /\ Init!12 /\ Init!13
    /\ output = <<>>
    /\ Init!16

\* one number, serialized as an object and formatted as an operand
InitNumber == Constructed /\ input \in Numbers
NextNumber ==
    \/ SerializeNumber
    \/ FormatOperand

SpecNumber == InitNumber /\ [][NextNumber]_vars

\* one text, embedded with a font and converted to glyph codes
InitCIDFont == Constructed /\ input \in SampleTexts
NextCIDFont ==
    \/ EmbedToUnicode
    \/ EmbedWidths
    \/ TextToHex

SpecCIDFont == InitCIDFont /\ [][NextCIDFont]_vars

\* pages created by addPage and by convert(), and save()
NextPageSize ==
    \/ AddPage
    \/ ConvertPage
    \/ Save

SpecPageSize == Init /\ [][NextPageSize]_vars

\* one string, serialized as an object and escaped as a text operand
InitString == Constructed /\ input \in Strings
NextString ==
    \/ SerializeLiteral
    \/ ShowText

SpecString == InitString /\ [][NextString]_vars

\* one font request, mapped by both implementations
InitFontMap == Constructed /\ input \in FontRequests
NextFontMap ==
    \/ MapCSSFont
    \/ MapCSSFontLegacy

SpecFontMap == InitFontMap /\ [][NextFontMap]_vars

\* one text, measured by both implementations
InitMeasure == Constructed /\ input \in MeasureRequests
NextMeasure ==
    \/ MeasureTextWidth
    \/ MeasureTextWidthOfTable

SpecMeasure == InitMeasure /\ [][NextMeasure]_vars

\* one converter: its setters and convertY
InitConverter ==
    /\ Init!1 /\ Init!2 /\ Init!3 /\ Init!4 /\ Init!5 /\ Init!6 /\ Init!7
    /\ Init!8 /\ Init!9 /\ Init!10 /\ Init!11 /\ Init!12 /\ Init!13
    /\ input \in ConverterHeights
    /\ output = <<>>
    /\ converter = NewUnitConverter(input)
    /\ twin = NewTwin
    /\ scan = NewScan
    /\ conversion = NewConversion
NextConverter ==
    \/ SetPageOffset
    \/ SetPageHeight
    \/ ConvertY

SpecConverter == InitConverter /\ [][NextConverter]_vars

\* two Documents built by the same calls
NextTwin ==
    \/ AddPage /\ InTurn
    \/ AddStandardFont /\ InTurn
    \/ AddCustomFont /\ InTurn
    \/ ApplyFontToPage /\ InTurn
    \/ AddImage /\ InTurn
    \/ DrawTextCID /\ InTurn
    \/ Save /\ InTurn
    \/ TurnToOtherDocument

SpecTwin == Init /\ [][NextTwin]_vars

\* one text, wrapped to an available width
InitWrap == Constructed /\ input \in WrapRequests
NextWrap == WrapTextByFontMetrics

SpecWrap == InitWrap /\ [][NextWrap]_vars

\* one embedImage call, followed through its scanning loop; every step the
\* call can take is taken
InitScan == Constructed /\ input \in ScanInputs
NextScan ==
    \/ EmbedImageBegin
    \/ ParseJPEGInfoStep
    \/ ExtractPNGDataStep

SpecScan == InitScan /\ [][NextScan]_vars /\ WF_vars(NextScan)

\* one convert() call on the element and options of input
InitConvert == Constructed /\ input \in Conversions
NextConvert ==
    \/ ConvertBegin
    \/ ConvertRenderNode
    \/ ConvertCollectFonts
    \/ ConvertEmbedFont
    \/ ConvertSave

SpecConvert == InitConvert /\ [][NextConvert]_vars

(***************************************************************************)
(* Properties                                                              *)
(***************************************************************************)
\* the object numbers written into a file, and the references written into it
WrittenNumbers(file) == {file.parts[k].num : k \in DOMAIN file.parts}
WrittenRefs(file) ==
    UNION {Range(file.parts[k].refs) : k \in DOMAIN file.parts}
    \cup {file.root, file.info}

\* the byte position at which the k-th object of a file begins
PartOffset(file, k) == file.header + TotalLength(SubSeq(file.parts, 1, k - 1))

\* a file without the dates of its Info dictionary
StripDate(file) ==
    [file EXCEPT !.parts = [k \in DOMAIN file.parts |->
        IF file.parts[k].kind = "Info"
        THEN [file.parts[k] EXCEPT !.value = 0]
        ELSE file.parts[k]]]

\* q minus Q over a command sequence, and correct nesting
Depth(commands) ==
    Cardinality({k \in DOMAIN commands : commands[k].op = "q"})
    - Cardinality({k \in DOMAIN commands : commands[k].op = "Q"})
Balanced(commands) ==
    /\ \A n \in 0..Len(commands) : Depth(SubSeq(commands, 1, n)) >= 0
    /\ Depth(commands) = 0

\* what a step appended to the content of page p
Added(p) ==
    SubSeq(pages'[p].contents, Len(pages[p].contents) + 1, Len(pages'[p].contents))

\* C1: in every saved file, no two indirect objects carry the same object
\* number.
C1_UniqueObjectNumbers ==
    \A f \in DOMAIN files :
        \A i, j \in DOMAIN files[f].parts :
            i # j => files[f].parts[i].num # files[f].parts[j].num

\* C2: in every saved file, every indirect reference written (in an object
\* or in the trailer's Root and Info) names an object written in that file.
C2_NoDanglingReference ==
    \A f \in DOMAIN files : WrittenRefs(files[f]) \subseteq WrittenNumbers(files[f])

\* C3: in every saved file, the offset of each in-use xref entry n is the
\* byte position at which an object numbered n begins.
C3_XrefOffsets ==
    \A f \in DOMAIN files :
        \A n \in DOMAIN files[f].xref :
            \E k \in DOMAIN files[f].parts :
                /\ files[f].parts[k].num = n
                /\ PartOffset(files[f], k) = files[f].xref[n]

\* C4: in every saved file, each font named by a Tf and each image named by
\* a Do in a page's content stream is a key of that page's Font / XObject
\* resource dictionary.
C4_OperandsRegistered ==
    \A f \in DOMAIN files :
        \A k \in DOMAIN files[f].parts :
            files[f].parts[k].kind = "Page" =>
                LET content == files[f].parts[k - 1].value
                    fontKeys == files[f].parts[k].value[2]
                    imageKeys == files[f].parts[k].value[3]
                IN \A c \in DOMAIN content :
                    /\ content[c].op = "Tf" => content[c].operands[1] \in fontKeys
                    /\ content[c].op = "Do" => content[c].operands[1] \in imageKeys

\* C5 as stated: after any sequence of drawing calls the q and Q operators
\* of a page's content nest correctly.
C5_AlwaysBalanced ==
    \A p \in DOMAIN pages : Balanced(pages[p].contents)

\* C5 amended: every call only appends; drawLine, drawRect and drawImage
\* append a group that opens with q, closes with Q and nests correctly in
\* itself; the text calls, setClipRect, addFont and addImage append neither q
\* nor Q; saveState appends exactly q and restoreState exactly Q.
C5_CallsNest ==
    [][\A p \in DOMAIN pages :
        pages'[p].contents # pages[p].contents =>
            /\ Len(pages'[p].contents) >= Len(pages[p].contents)
            /\ SubSeq(pages'[p].contents, 1, Len(pages[p].contents)) = pages[p].contents
            /\ lastCall'.op \in {"drawLine", "drawRect", "drawImage"} =>
                   /\ Balanced(Added(p))
                   /\ Head(Added(p)).op = "q"
                   /\ Last(Added(p)).op = "Q"
            /\ lastCall'.op \in {"drawText", "drawTextUnicode", "drawTextCID",
                                 "setClipRect", "addFont", "addImage"} =>
                   \A k \in DOMAIN Added(p) : Added(p)[k].op \notin {"q", "Q"}
            /\ lastCall'.op = "saveState" => Added(p) = saveState
            /\ lastCall'.op = "restoreState" => Added(p) = restoreState]_vars

\* a drawRect has closed its group inside a saveState the caller left open
C5_Witness ==
    /\ lastCall.op = "drawRect"
    /\ \E p \in DOMAIN pages :
        /\ Len(pages[p].contents) > 2
        /\ Last(pages[p].contents).op = "Q"
        /\ Depth(pages[p].contents) = 1

\* C6: once a loaded font is embedded, a step that adds to its used code
\* points reports an error.
C6_LateCodePointsDetected ==
    [][\A key \in DOMAIN fonts :
        fonts[key].isCID =>
            \/ loaded'[fonts[key].loadedFont] = loaded[fonts[key].loadedFont]
            \/ ret' = "Error"]_vars

\* C7: a save() that directly follows a save() returns the same file, dates
\* apart.
C7_SaveIdempotent ==
    [][(lastCall.op = "save" /\ lastCall'.op = "save" /\ Len(files') = Len(files) + 1)
        => StripDate(Last(files')) = StripDate(Last(files))]_vars

\* C8: the counter never decreases and is greater than the number of every
\* registered object.
C8_CounterAboveObjects ==
    [][/\ nextObjectNumber' >= nextObjectNumber
       /\ \A i \in DOMAIN objects' : objects'[i].num < nextObjectNumber']_vars

\* C9: addStandardFont, addCustomFont and addImage with a key that is
\* already registered return the handle of the first registration and leave
\* the objects, the counter and both maps as they were.
C9_ReRegistrationIsNoOp ==
    [][/\ (lastCall'.op \in {"addStandardFont", "addCustomFont"}
           /\ lastCall'.key \in DOMAIN fonts)
          => /\ ret' = fonts[lastCall'.key]
             /\ UNCHANGED <<fonts, images, objects, nextObjectNumber>>
       /\ (lastCall'.op = "addImage" /\ lastCall'.key \in DOMAIN images)
          => /\ ret' = images[lastCall'.key]
             /\ UNCHANGED <<fonts, images, objects, nextObjectNumber>>]_vars

\* addStandardFont was called with a key addCustomFont had registered, and
\* returned the embedded font's handle
C9_Witness ==
    /\ lastCall.op = "addStandardFont"
    /\ lastCall.key \in DOMAIN fonts
    /\ fonts[lastCall.key].isCID
    /\ ret = fonts[lastCall.key]

\* C10: whenever a stream has been serialized, the /Length written equals
\* the byte length of the payload written.
C10_LengthIsPayloadLength ==
    \A k \in DOMAIN serialized :
        serialized[k].dict["Length"] = Len(serialized[k].payload)
Contains(text, word) ==
    \E i \in 1..Len(text) : i + Len(word) - 1 <= Len(text)
                            /\ SubSeq(text, i, i + Len(word) - 1) = word

\* C11: serializing NaN, +Infinity or -Infinity throws, and no serialized
\* number holds the text "NaN" or "Infinity".
C11_NonFiniteThrows ==
    \A k \in DOMAIN output :
        /\ input.kind # "finite" => output[k].threw
        /\ ~output[k].threw =>
              /\ ~Contains(output[k].value, <<"N", "a", "N">>)
              /\ ~Contains(output[k].value, <<"I", "n", "f", "i", "n", "i", "t", "y">>)

\* the digits after the decimal point of a text
Fraction(text) ==
    LET dots == {i \in 1..Len(text) : text[i] = "."}
    IN IF dots = {} THEN <<>> ELSE SubSeq(text, 1 + CHOOSE i \in dots : TRUE, Len(text))

\* C18: a finite integer is serialized without a decimal point, any other
\* finite number with at most 5 fractional digits, no trailing zero and no
\* trailing decimal point, and PDFNumber.serialize and formatNumber return
\* the same text for the same value.
C18_NumberFormat ==
    input.kind = "finite" =>
        /\ \A k \in DOMAIN output :
              LET text == output[k].value
              IN /\ IsInteger(input) => "." \notin Range(text)
                 /\ ~IsInteger(input) =>
                       /\ Len(Fraction(text)) <= 5
                       /\ "." \in Range(text) => Last(text) \notin {"0", "."}
        /\ \A j, k \in DOMAIN output : output[j].value = output[k].value
\* the value of a text of hex digits
RECURSIVE HexValue(_)
HexValue(hex) ==
    IF hex = <<>> THEN 0
    ELSE 16 * HexValue(SubSeq(hex, 1, Len(hex) - 1))
         + ((CHOOSE d \in DOMAIN HexChars : HexChars[d] = Last(hex)) - 1)

\* the code point a bfchar destination stands for: four hex digits are one
\* UTF-16BE code unit; five digits are not a UTF-16BE string (-1)
BfcharTarget(unicodeHex) == IF Len(unicodeHex) = 4 THEN HexValue(unicodeHex) ELSE -1

\* the bfchar lines of all blocks, in file order
RECURSIVE BfcharLines(_)
BfcharLines(blocks) ==
    IF blocks = <<>> THEN <<>> ELSE Head(blocks).lines \o BfcharLines(Tail(blocks))

\* C12: once a text is embedded and converted, every code point of the text
\* has a bfchar entry in the ToUnicode CMap, and the code textToCIDHex emits
\* for each character maps through the CMap to that character's code point
\* and to no other.
C12_CMapRoundTrip ==
    \A a, b \in DOMAIN output :
        (output[a].by = "createToUnicodeCMap" /\ output[b].by = "textToCIDHex") =>
            LET lines == Range(BfcharLines(output[a].value))
            IN \A i \in DOMAIN input :
                   LET found == {l \in lines : l.gidHex = output[b].value[i]}
                   IN /\ \E l \in lines : BfcharTarget(l.unicodeHex) = input[i]
                      /\ found # {}
                      /\ \A l \in found : BfcharTarget(l.unicodeHex) = input[i]

\* the glyph IDs of the used code points, and the first IDs of their runs
UsedGlyphs(font, text) ==
    {CharToGlyph(font, cp) : cp \in Range(UsedCodePoints(text))} \ {0}
RunStarts(glyphs) == {g \in glyphs : g - 1 \notin glyphs}

\* C13: the W array lists the used glyph IDs in ascending order as maximal
\* runs of consecutive IDs: one group per run, holding the run's first ID
\* and the widths of the run's glyphs in order.
C13_WidthGroups ==
    \A a \in DOMAIN output :
        output[a].by = "buildWidthArray" =>
            LET glyphs == UsedGlyphs("NotoSansJP", input)
                groups == output[a].value
            IN /\ Len(groups) = Cardinality(RunStarts(glyphs))
               /\ \A g \in DOMAIN groups :
                     /\ groups[g].startGid = Nth(RunStarts(glyphs), g)
                     /\ groups[g].startGid + Len(groups[g].widths) \notin glyphs
                     /\ \A i \in DOMAIN groups[g].widths :
                           /\ groups[g].startGid + i - 1 \in glyphs
                           /\ groups[g].widths[i] =
                                  ScaledWidth("NotoSansJP", groups[g].startGid + i - 1)

\* C14: every bfchar block of the ToUnicode CMap holds at most 100 entries,
\* the count before beginbfchar is the number of entries of the block, and
\* the blocks together hold every collected mapping exactly once, in
\* ascending glyph-ID order.
C14_BfcharBlocks ==
    \A a \in DOMAIN output :
        output[a].by = "createToUnicodeCMap" =>
            LET blocks == output[a].value
                lines == BfcharLines(blocks)
                mappings == CollectGlyphs("NotoSansJP", UsedCodePoints(input))
            IN /\ \A b \in DOMAIN blocks :
                     /\ Len(blocks[b].lines) <= 100
                     /\ blocks[b].count = Len(blocks[b].lines)
               /\ Len(lines) = Len(mappings)
               /\ \A m \in DOMAIN mappings :
                     Cardinality({p \in DOMAIN lines :
                         /\ lines[p].gidHex = Hex4(mappings[m].gid)
                         /\ lines[p].unicodeHex = Hex4(mappings[m].unicode)}) = 1
               /\ \A p \in 1..(Len(lines) - 1) :
                     HexValue(lines[p].gidHex) <= HexValue(lines[p + 1].gidHex)

\* a CMap of more than 200 mappings has been written: two full blocks and
\* a shorter one
C14_Witness ==
    \E a \in DOMAIN output :
        /\ output[a].by = "createToUnicodeCMap"
        /\ Len(output[a].value) = 3
        /\ output[a].value[1].count = 100
        /\ output[a].value[3].count < 100
IsPrefix(prefix, data) ==
    Len(prefix) <= Len(data) /\ SubSeq(data, 1, Len(prefix)) = prefix

\* C15: embedImage with data that begins with neither FF D8 FF nor the PNG
\* signature registers no object, leaves the context and the counter as
\* they were, and rejects with an error.
C15_UnknownImageRejected ==
    [][(/\ lastCall'.op = "embedImage"
        /\ ~IsPrefix(JPEGMarker, lastCall'.key[2])
        /\ ~IsPrefix(PNGSignature, lastCall'.key[2]))
       => /\ objects' = objects
          /\ contexts' = contexts
          /\ nextObjectNumber' = nextObjectNumber
          /\ ret' = "Error: Unsupported image format"]_vars

\* embedImage has rejected data that is not an image, through a context of
\* a document that holds objects
C15_Witness ==
    /\ lastCall.op = "embedImage"
    /\ ~IsPrefix(JPEGMarker, lastCall.key[2])
    /\ ~IsPrefix(PNGSignature, lastCall.key[2])
    /\ ret = "Error: Unsupported image format"
    /\ Len(objects) > 0
\* C16: every page written by save() has a MediaBox of strictly positive
\* width and height.
C16_MediaBoxPositive ==
    \A f \in DOMAIN files :
        \A k \in DOMAIN files[f].parts :
            files[f].parts[k].kind = "Page" =>
                /\ files[f].parts[k].value[1][3] > 0
                /\ files[f].parts[k].value[1][4] > 0
IsOctalDigit(c) == c \in 48..55

\* C17: in a serialized literal string every "(", ")" and backslash of the
\* input is preceded by a backslash, every character whose code is below 32
\* or above 126 is written as a backslash followed by exactly three octal
\* digits, and every other character is written unchanged.
C17_StringEscapes ==
    \A k \in DOMAIN output :
        output[k].by = "PDFString.serialize" =>
            LET pieces == output[k].value.pieces
            IN /\ output[k].value.text = <<40>> \o Concat(pieces) \o <<41>>
               /\ DOMAIN pieces = DOMAIN input
               /\ \A i \in DOMAIN input :
                      IF input[i] \in {40, 41, 92} THEN pieces[i] = <<92, input[i]>>
                      ELSE IF input[i] < 32 \/ input[i] > 126
                      THEN /\ Len(pieces[i]) = 4
                           /\ pieces[i][1] = 92
                           /\ \A d \in 2..4 : IsOctalDigit(pieces[i][d])
                      ELSE pieces[i] = <<input[i]>>
CourierFonts == {CourierFont(b, i) : b \in BOOLEAN, i \in BOOLEAN}
TimesFonts == {TimesFont(b, i) : b \in BOOLEAN, i \in BOOLEAN}
HelveticaFonts == {HelveticaFont(b, i) : b \in BOOLEAN, i \in BOOLEAN}

\* C19: mapCSSFontToStandard picks a Courier font when the lower-cased family
\* contains a monospace keyword, otherwise a Times font when it contains a
\* serif keyword and not "sans-serif", otherwise a Helvetica font.
C19_FamilyMapping ==
    \A k \in DOMAIN output :
        output[k].by \in {"core.mapCSSFontToStandard", "src.mapCSSFontToStandard"} =>
            LET family == ToLowerCase(input.family)
            IN IF IncludesAny(family, MonospaceKeywords)
               THEN output[k].value \in CourierFonts
               ELSE IF IncludesAny(family, SerifKeywords)
                       /\ ~Includes(family, SansSerifKeyword)
               THEN output[k].value \in TimesFonts
               ELSE output[k].value \in HelveticaFonts
\* the characters of a text with an entry in every width table, and the others
Mapped(text) == SelectSeq(text, LAMBDA c : c \in 32..126)
Unmapped(text) == SelectSeq(text, LAMBDA c : c \notin 32..126)

\* the font type a call measures with
MeasuredType(by) == IF by = "src.measureTextWidth" THEN "sans-serif" ELSE input.fontType

\* the default width the specification names for a font type
NamedDefault(fontType) ==
    IF fontType = "sans-serif" THEN 556 ELSE IF fontType = "serif" THEN 500 ELSE 600

\* C20 (as stated): a character without an entry in the chosen family's width
\* table counts the family default, 556 for sans-serif, 500 for serif and 600
\* for monospace, and that default is the width the family's table gives for
\* the space character.
C20_DefaultIsSpaceWidth ==
    \A k \in DOMAIN output :
        output[k].by \in {"core.measureTextWidth", "src.measureTextWidth"} =>
            LET fontType == MeasuredType(output[k].by)
            IN /\ output[k].value - measureTextWidth(Mapped(input.text), input.fontSize, fontType)
                      = Len(Unmapped(input.text)) * NamedDefault(fontType) * input.fontSize
               /\ NamedDefault(fontType) = getFontWidths(fontType)[32]

\* C20 (amended): a character without an entry in the chosen family's width
\* table counts the family default, 556 for sans-serif, 500 for serif and 600
\* for monospace; a space counts 278 in sans-serif, 250 in serif and 600 in
\* monospace, so only the monospace default is the width of the space.
C20_DefaultWidths ==
    \A k \in DOMAIN output :
        output[k].by \in {"core.measureTextWidth", "src.measureTextWidth"} =>
            LET fontType == MeasuredType(output[k].by)
                spaces == Len(SelectSeq(input.text, LAMBDA c : c = 32))
                others == SelectSeq(input.text, LAMBDA c : c \in 33..126)
            IN output[k].value - measureTextWidth(others, input.fontSize, fontType)
                   = ( Len(Unmapped(input.text)) * NamedDefault(fontType)
                       + spaces * (IF fontType = "sans-serif" THEN 278
                                   ELSE IF fontType = "serif" THEN 250 ELSE 600) )
                     * input.fontSize

\* a serif text with a space and a character outside the table has been measured
C20_Witness ==
    /\ HasReturned("core.measureTextWidth")
    /\ input.fontType = "serif"
    /\ input.text = <<32, 12354>>
    /\ output[1].value = (250 + 500) * input.fontSize
\* the calls named `by` made before the k-th call
CallsBefore(k, by) == {j \in 1..(k - 1) : output[j].by = by}

\* the page height and the Y offset most recently set before the k-th call
HeightSetBefore(k) ==
    IF CallsBefore(k, "setPageHeight") = {} THEN input
    ELSE LET j == CHOOSE i \in CallsBefore(k, "setPageHeight") :
                      \A o \in CallsBefore(k, "setPageHeight") : o <= i
         IN output[j].value.args[1]
OffsetYSetBefore(k) ==
    IF CallsBefore(k, "setPageOffset") = {} THEN 0
    ELSE LET j == CHOOSE i \in CallsBefore(k, "setPageOffset") :
                      \A o \in CallsBefore(k, "setPageOffset") : o <= i
         IN output[j].value.args[2]

\* C21: after any sequence of setPageOffset and setPageHeight calls,
\* convertY(px, h) returns pageHeightPt - pxToPt((px - offsetY) + h) with the
\* most recently set page height and Y offset; with page height 842 and no
\* offset convertY(0, 0) = 842, convertY(100, 0) = 767 and
\* convertY(100, 50) = 729.5 (results in quarter points).
C21_ConvertY ==
    \A k \in DOMAIN output :
        output[k].by = "convertY" =>
            LET px == output[k].value.args[1]
                h == output[k].value.args[2]
                result == output[k].value.result
            IN /\ result = (4 * HeightSetBefore(k)) - (3 * ((px - OffsetYSetBefore(k)) + h))
               /\ (HeightSetBefore(k) = 842 /\ OffsetYSetBefore(k) = 0) =>
                      /\ (px = 0 /\ h = 0) => result = 4 * 842
                      /\ (px = 100 /\ h = 0) => result = 4 * 767
                      /\ (px = 100 /\ h = 50) => result = 2918

\* convertY(150, 0) has returned 804.5 after setPageOffset(0, 100) and a
\* setPageHeight(842) on a converter constructed with another height
C21_Witness ==
    /\ input = 400
    /\ Len(output) = 3
    /\ output[3].by = "convertY"
    /\ output[3].value = [args |-> <<150, 0>>, result |-> 3218]
    /\ CallsBefore(3, "setPageOffset") # {}
    /\ CallsBefore(3, "setPageHeight") # {}
    /\ OffsetYSetBefore(3) = 100
\* C22: two Documents built by the same sequence of operations with the same
\* arguments produce, on save(), byte-identical files apart from the
\* CreationDate/ModDate values.
C22_SameCallsSameFiles ==
    (twin.active = 2 /\ calls = twin.calls) =>
        /\ Len(files) = Len(twin.document.files)
        /\ \A k \in DOMAIN files :
               StripDate(files[k]) = StripDate(twin.document.files[k])

\* both Documents have embedded a custom font and saved, at different times
C22_Witness ==
    /\ twin.active = 2
    /\ calls = twin.calls
    /\ Len(files) = 1
    /\ files[1] # twin.document.files[1]
    /\ \E i \in DOMAIN objects : objects[i].kind = "ToUnicode" /\ objects[i].cps # {}

\* the glyph IDs a W array lists, one entry per width, in file order
RECURSIVE ListedGlyphs(_)
ListedGlyphs(groups) ==
    IF groups = <<>> THEN <<>>
    ELSE [i \in DOMAIN Head(groups).widths |-> Head(groups).startGid + i - 1]
         \o ListedGlyphs(Tail(groups))

IsInjective(s) == \A i, j \in DOMAIN s : s[i] = s[j] => i = j

\* C28: whatever the used code points are, among them code points that
\* resolve to the same glyph, each glyph ID is listed at most once in the W
\* array and is the source code of at most one bfchar line of the ToUnicode
\* CMap.
C28_GlyphsListedOnce ==
    \A a \in DOMAIN output :
        /\ output[a].by = "buildWidthArray" => IsInjective(ListedGlyphs(output[a].value))
        /\ output[a].by = "createToUnicodeCMap" =>
               LET lines == BfcharLines(output[a].value)
               IN IsInjective([p \in DOMAIN lines |-> lines[p].gidHex])

\* the width of a line as the font measures it, in units of 1/unitsPerEm pt
RECURSIVE MeasuredLineWidth(_, _, _)
MeasuredLineWidth(font, line, fontSize) ==
    IF line = <<>> THEN 0
    ELSE AdvanceWidth(font, CharToGlyph(font, Head(line))) * fontSize
         + MeasuredLineWidth(font, Tail(line), fontSize)

\* C30: for every text, font size and available width, zero and negative
\* widths included, the lines wrapTextByFontMetrics returns concatenate to
\* the text, none of them is empty, and every line of more than one
\* character measures no more than the available width.
C30_WrapPreservesText ==
    \A a \in DOMAIN output :
        output[a].by = "wrapTextByFontMetrics" =>
            LET lines == output[a].value
            IN /\ Concat(lines) = input.text
               /\ \A l \in DOMAIN lines :
                     /\ lines[l] # <<>>
                     /\ Len(lines[l]) > 1 =>
                            MeasuredLineWidth("NotoSansJP", lines[l], input.fontSize)
                                <= input.maxWidthPt * UnitsPerEm("NotoSansJP")

\* a text of three characters has been wrapped into a line of two characters
\* and a line of one
C30_Witness ==
    \E a \in DOMAIN output :
        /\ output[a].by = "wrapTextByFontMetrics"
        /\ Len(input.text) = 3
        /\ Len(output[a].value) = 2
        /\ Len(output[a].value[1]) = 2

\* C25: when two embedImage calls overlap, each through a context obtained
\* before the other registered its objects and was synchronised, the two
\* calls return distinct image resource names.  Two successful embedImage
\* calls in a row through different contexts are such a pair: the second
\* context was obtained before the first call registered anything.
C25_OverlappingEmbedsDistinctNames ==
    [][(/\ lastCall.op = "embedImage"
        /\ lastCall'.op = "embedImage"
        /\ lastCall.key[1] # lastCall'.key[1]
        /\ DetectImageType(lastCall.key[2]) # "unknown"
        /\ DetectImageType(lastCall'.key[2]) # "unknown")
       => ret'.name # ret.name]_vars

\* C27: embedImage terminates for every byte array: the chunk scan of
\* extractPNGData and the marker scan of parseJPEGInfo come to an end,
\* whatever length fields the data holds.
C27_ScanTerminates == <>(scan.pc \in {"scanned", "threw"})

\* C27, the step it rests on: every iteration of either loop moves the
\* offset strictly forward
C27_OffsetMovesForward ==
    [][(scan.pc \in {"parseJPEGInfo", "extractPNGData"} /\ scan'.pc = scan.pc)
       => scan'.offset > scan.offset]_vars

\* the positions of the text-showing operators of a command sequence, in
\* order
TextShows(commands) ==
    LET shows == {k \in DOMAIN commands : commands[k].op = "Tj"}
    IN [n \in 1..Cardinality(shows) |-> Nth(shows, n)]

\* the font and size of the PDF graphics state in which command k executes:
\* those of the last Tf before k that no Q in between has undone, a Q
\* restoring the state saved by its q
FontAt(commands, k) ==
    LET InForce(j) ==
            /\ commands[j].op = "Tf"
            /\ \A i \in j..(k - 1) :
                   Depth(SubSeq(commands, 1, i)) >= Depth(SubSeq(commands, 1, j))
        inForce == {j \in 1..(k - 1) : InForce(j)}
    IN IF inForce = {} THEN <<"none", 0>>
       ELSE commands[CHOOSE j \in inForce : \A i \in inForce : i <= j].operands

\* C23: whatever drawText and drawTextCID calls a rendering interleaves with
\* saveState and restoreState on the page, every text-showing operator
\* executes with the font and size its draw call asked for in force.
C23_TextShownInRequestedFont ==
    Len(pages) > 0 =>
        LET commands == pages[1].contents
            shows == TextShows(commands)
        IN /\ Len(shows) = Len(conversion.drawn)
           /\ \A n \in DOMAIN shows :
                  FontAt(commands, shows[n])
                      = <<conversion.drawn[n].font, conversion.drawn[n].fontSize>>

DrawnCodePoints(pdfName) ==
    UNION {Range(conversion.drawn[n].text) :
               n \in {m \in DOMAIN conversion.drawn : conversion.drawn[m].font = pdfName}}

\* no text drawn with the font holds a surrogate that is not part of a pair
NoUnpairedSurrogates(pdfName) == DrawnCodePoints(pdfName) \cap (55296..57343) = {}

\* C24: convert() embeds a custom font only once every render node has been
\* rendered, and the code points of the string it passes to addCustomFont
\* hold every code point of every text drawn with the font's resource name.
C24_EmbeddedAfterRendering ==
    \A e \in DOMAIN conversion.embedded :
        conversion.embedded[e].is_cid =>
            /\ conversion.index = Len(conversion.renderNodes)
            /\ DrawnCodePoints(conversion.embedded[e].pdfName)
                   \subseteq Range(StringCodePoints(conversion.embedded[e].usedText))

\* the same for the fonts whose texts hold no unpaired surrogate, together
\* with the order of embedding for every font
C24_EmbeddedAfterRenderingOfPairedText ==
    \A e \in DOMAIN conversion.embedded :
        conversion.embedded[e].is_cid =>
            /\ conversion.index = Len(conversion.renderNodes)
            /\ NoUnpairedSurrogates(conversion.embedded[e].pdfName) =>
                   DrawnCodePoints(conversion.embedded[e].pdfName)
                       \subseteq Range(StringCodePoints(conversion.embedded[e].usedText))

\* a conversion has embedded the fallback font after drawing the two lines
\* of a wrapped text with it, and a custom font after drawing a character
\* outside the basic plane with it
C24_FallbackEmbedded ==
    \E e \in DOMAIN conversion.embedded :
        /\ conversion.embedded[e].is_cid
        /\ Range(StringCodePoints(conversion.embedded[e].usedText)) = {65, 12354}
        /\ Cardinality({n \in DOMAIN conversion.drawn :
               conversion.drawn[n].font = conversion.embedded[e].pdfName}) >= 2
C24_AstralEmbedded ==
    \E e \in DOMAIN conversion.embedded :
        /\ conversion.embedded[e].is_cid
        /\ conversion.embedded[e].usedText = <<65, 55357, 56832>>
        /\ DrawnCodePoints(conversion.embedded[e].pdfName) = {65, 128512}

\* C29: the values a successful convert() passes to onProgress lie between
\* 0 and 1, begin with 0, end with 1 and never decrease, whatever number of
\* render nodes walkDOM returned.
C29_ProgressMonotone ==
    LET progress == conversion.progress
    IN /\ \A k \in DOMAIN progress : progress[k] >= 0 /\ progress[k] <= 100
       /\ progress # <<>> => progress[1] = 0
       /\ \A k \in 1..(Len(progress) - 1) : progress[k] <= progress[k + 1]
       /\ conversion.pc = "returned" => Last(progress) = 100

\* a conversion of one render node has returned, having reported progress in
\* the loop over the render nodes
C29_Witness ==
    /\ conversion.pc = "returned"
    /\ Len(conversion.renderNodes) = 1
    /\ Len(conversion.progress) = 10

====
